---- MODULE Spec2Model ----
(***************************************************************************)
(* Micro-checkpointing (migration-checkpoint.c) and its RDMA transport.    *)
(*                                                                         *)
(* Byte counts are kept in granules of 1 MiB: a slab of 5 MiB holds 5      *)
(* granules and the 32-bit size prefix wraps at 2^32 bytes = 4096          *)
(* granules.  Checkpoint sizes are therefore multiples of 1 MiB.           *)
(***************************************************************************)
EXTENDS Integers, Sequences, FiniteSets, TLC

\* ------------------------------------------------------------------ bounds
MaxTicks == 2
MaxLen == 11
MaxChunk == 6
SaveChunk == 64
RamChunks == 2
SendDepth == 2
MaxSlabs == 6
MaxExchanges == 3
MaxCalls == 4
MaxFlushes == 3
SavePages == 1025

\* --------------------------------------------------------------- constants
MC_SLAB_BUFFER_SIZE == 5
Word32 == 4096
MC_DEFAULT_SLAB_MAX_CHECK_DELAY_SECS == 10
MC_DEFAULT_CHECKPOINT_FREQ_MS == 100

MC_TRANSACTION_NACK == -1
MC_TRANSACTION_COMMIT_shifted == MC_TRANSACTION_NACK + 2
MC_TRANSACTION_COMMIT == MC_TRANSACTION_NACK + 1
MC_TRANSACTION_CANCEL == MC_TRANSACTION_COMMIT + 1
MC_TRANSACTION_ACK == MC_TRANSACTION_CANCEL + 1

RDMA_REG_CHUNK_PAGES == 2
\* In pages of 4 KiB: a chunk of 1 << RDMA_REG_CHUNK_SHIFT bytes, and
\* RDMA_MERGE_MAX (2 MiB).
RDMA_REG_CHUNK_4K == 256
RDMA_MERGE_MAX_4K == 512
RDMA_WRID_TYPE_SHIFT == 0
RDMA_WRID_BLOCK_SHIFT == 16
RDMA_WRID_CHUNK_SHIFT == 30
RDMA_WRID_NONE == 0
RDMA_CAPABILITY_PIN_ALL == 1
RDMA_CAPABILITY_KEEPALIVE == 2
RDMA_WRID_RDMA_WRITE_REMOTE == 1
EINVAL == 22
EIO == 5
ENETUNREACH == 101
RDMA_CONNECTION_INTERVAL_MS == 300
RDMA_KEEPALIVE_INTERVAL_MS == 300
RDMA_KEEPALIVE_FIRST_MISSED_OFFSET == 1000
RDMA_MAX_LOST_KEEPALIVE == 10
RDMA_MAX_STARTUP_MISSED_KEEPALIVE == 100

Min(a, b) == IF a < b THEN a ELSE b
Max(a, b) == IF a > b THEN a ELSE b

\* Checkpoint periods (ms) the operator may have set with migrate-set-mc-delay.
FreqChoices == {5000, 10000}
\* Sizes (granules) of the VM state one checkpoint stages: less than a slab,
\* more than a slab; and, for the runs with very large guests, 4 GiB and
\* 4 GiB + 1 MiB.
StagedSizes == {1, 6}
HugeSizes == {Word32, Word32 + 1}
\* Values of one granule of VM state.
DataVals == {0, 1}

VARIABLES
  \* the slab ring driven on its own; rshrunk: slabs the last reset freed
  mc, rput, rgot, rreq, rret, rphase, rshrunk,
  \* configuration
  freq_ms, max_strikes,
  \* primary: mc_thread
  ppc, mstate, pmc, mc_staging, vm_running, tick, bytes_xfer,
  to_save, save_val, pslab, pret,
  \* the replication socket, one byte stream per direction, and its state
  p2s, s2p, link,
  \* secondary: mc_process_incoming_checkpoints_if_requested
  spc, smc, checkpoint_size, received, sslab,
  \* traffic-buffer controller and the plug qdisc behind it
  buffering_enabled, qplugged, qqueue, released,
  \* history of the run, read by the properties only
  hist,
  \* RDMA write engine: per-block transit bitmaps, posted-write counters,
  \* the chunk being merged per context, the work requests posted to each
  \* queue pair and not yet polled, the engine's position, the sticky error
  transit_bitmap, nb_sent, lc_nb_sent, chunk_cur, sendq, wpc, error_state,
  \* control channel, per peer: the RECVs posted on the queue pair, the
  \* RECV completions not yet polled, control_ready_expected, the peer's
  \* position in an exchange, its error_state; the request being exchanged
  \* and the history of the channel
  posted_recv, recv_cq, control_ready_expected, cpc, peer_error, creq, chist,
  \* transport entry points: the offsets in the block registry, the last
  \* call (its number, the operation, what it returned), the work requests
  \* and control messages posted so far
  blockmap, local_ram_blocks, entry, work_posted,
  \* keepalive: the slot the peer writes and what the watcher read last,
  \* the watcher's counters and flags, the queue pair's state, the delay
  \* connection_timer is armed with (0: not armed), whether keepalive_timer
  \* is armed; hka: the run of checks that saw no change, and a flag that
  \* flips with every check
  migration_started, keepalive, last_keepalive, nb_missed_keepalive,
  keepalive_startup, qp_state, connection_timer, keepalive_timer, hka,
  \* registration on demand: the source's remote_keys of block 0, the
  \* chunks each peer holds a memory region for, the ring of pending
  \* unregistrations, the request and the response under way, the state of
  \* the destination handler's local variable block, the source's position
  \* and the history of its flushes
  remote_keys, pmr, unregistrations, unregister_current, unregister_next,
  unregister_bitmap, reg_wire, reg_resp, dblock, reg_hist, reg_pc,
  \* a run of contiguous 4 KiB pages saved through qemu_rdma_save_page:
  \* the buffer (addresses and lengths in pages of 4 KiB), the first page,
  \* the pages saved so far, the writes issued, and where the run stands
  m_cc, m_start, m_saved, m_flushes, m_pc,
  \* the slab cache over many checkpoints: the run of consecutive
  \* checkpoints that left the cache under-used, the slabs the cache had
  \* when the run began, and whether the run has ended in a shrink
  shk,
  \* the traffic-buffer controller's handles: the guest's NICs (what the
  \* host device of each is called), the netlink handles and the
  \* function-static first_nic_chosen, and the calls made so far
  nics, nic_ctl, nic_hist,
  \* connection setup: what the user asked for on the source, each side's
  \* pin_all and do_keepalive, the byte order of each host, the
  \* destination's known_capabilities, and the RDMACapabilities in flight
  capneg,
  \* the transport's entry points that synchronise with the peer: where the
  \* running call stands, and what the last one found and returned
  sync

ringvars == <<mc, rput, rgot, rreq, rret, rphase, rshrunk>>
cfgvars == <<freq_ms, max_strikes>>
privars == <<ppc, mstate, pmc, mc_staging, vm_running, tick, bytes_xfer,
            to_save, save_val, pslab, pret>>
chanvars == <<p2s, s2p, link>>
secvars == <<spc, smc, checkpoint_size, received, sslab>>
bufvars == <<buffering_enabled, qplugged, qqueue, released>>
mcvars == <<privars, chanvars, secvars, bufvars, hist>>
rdmavars == <<transit_bitmap, nb_sent, lc_nb_sent, chunk_cur, sendq, wpc,
              error_state>>
ctlvars == <<posted_recv, recv_cq, control_ready_expected, cpc, peer_error,
             creq, chist>>
entvars == <<blockmap, local_ram_blocks, entry, work_posted>>
kavars == <<migration_started, keepalive, last_keepalive,
            nb_missed_keepalive, keepalive_startup, qp_state,
            connection_timer, keepalive_timer, hka>>
regvars == <<remote_keys, pmr, unregistrations, unregister_current,
             unregister_next, unregister_bitmap, reg_wire, reg_resp, dblock,
             reg_hist, reg_pc>>
earlymerge == <<m_cc, m_start, m_saved, m_flushes, m_pc, shk, nics, nic_ctl,
                nic_hist, capneg>>
latevars == <<sync>>
mergevars == <<earlymerge, latevars>>
transportvars == <<ctlvars, entvars, kavars, regvars, mergevars>>
notctl == <<ringvars, cfgvars, mcvars, rdmavars, entvars, kavars, regvars,
            mergevars>>
notent == <<ringvars, cfgvars, mcvars, ctlvars, kavars, regvars, mergevars>>
notka == <<ringvars, cfgvars, mcvars, ctlvars, entvars, regvars, mergevars>>
notreg == <<ringvars, cfgvars, mcvars, ctlvars, entvars, kavars, mergevars>>
notmerge == <<ringvars, cfgvars, mcvars, rdmavars, ctlvars, entvars, kavars,
              regvars>>
notlate == <<ringvars, cfgvars, mcvars, ctlvars, entvars, kavars, regvars,
             earlymerge>>
vars == <<ringvars, cfgvars, mcvars, rdmavars, transportvars>>

\* The two ends of the RDMA connection: the migration source, which opens
\* its QEMUFile for writing, and the destination, which opens it for reading.
Peers == {"src", "dst"}
Other(p) == IF p = "src" THEN "dst" ELSE "src"
\* Indexes of the control buffers a RECV is posted for.
RDMA_WRID_READY == 0
RDMA_WRID_DATA == 1
\* History of the control channel: the types of the messages sent while
\* the peer had no RECV posted, the requests sent, the READY messages sent,
\* the READY completions the source has polled, the cleanup ERRORs sent.
\* No entry point called yet.
Entry0 == [n |-> 0, op |-> "open", ret |-> 0]
CHist0 == [unposted |-> {}, requests |-> 0, readys_sent |-> 0,
           readys_polled |-> 0, errors_sent |-> 0]

\* ------------------------------------------------------------- slab ring
\* A g_malloc'ed buffer: contents not initialised.
Junk == 0 - 1
FreshBuf == [i \in 1..MC_SLAB_BUFFER_SIZE |-> Junk]
NewSlab == [buf |-> FreshBuf, size |-> 0, read |-> 0]

\* The list head..tail is the sequence slabs; slab i's next is i+1, NULL is 0.
SlabNextPtr(m, slab) == IF slab < Len(m.slabs) THEN slab + 1 ELSE 0

CALC_MAX_STRIKES(delay_secs, freq) == (delay_secs * 1000) \div freq

qemu_fopen_mc ==
  [slabs |-> <<NewSlab>>, curr_slab |-> 1, tail |-> 1,
   slab_total |-> 0, nb_slabs |-> 1, strikes |-> 0]

\* The free loop without its nb_slabs--.
RECURSIVE free_tail_nocount(_, _)
free_tail_nocount(m, n) ==
  IF n = 0 THEN m
  ELSE free_tail_nocount([m EXCEPT !.slabs = SubSeq(@, 1, m.tail - 1),
                                   !.tail = @ - 1], n - 1)

RECURSIVE free_tail(_, _)
free_tail(m, n) ==
  IF n = 0 THEN m
  ELSE free_tail([m EXCEPT !.slabs = SubSeq(@, 1, m.tail - 1),
                           !.tail = @ - 1,
                           !.nb_slabs = @ - 1], n - 1)

\* The reset left out.
mc_slab_start_keep(m, maxs) == m

nb_slabs_to_free_half(nb_slabs) == Max(1, nb_slabs \div 2)
\* The slabs mc_slab_start frees once max_strikes is reached.
nb_slabs_to_free(nb_slabs) == Max(1, (nb_slabs - 1) \div 2)

\* Strikes kept when every slab was used.
mc_slab_start_nostrikereset(m, maxs) ==
  LET reset(x) == [x EXCEPT !.slab_total = 0,
                            !.slabs[1].read = 0,
                            !.slabs[1].size = 0,
                            !.curr_slab = 1]
  IN IF m.nb_slabs >= 2 /\ m.strikes >= maxs
     THEN reset(free_tail([m EXCEPT !.strikes = 0],
                          nb_slabs_to_free(m.nb_slabs)))
     ELSE IF m.nb_slabs >= 2
             /\ m.slab_total <= (m.nb_slabs - 1) * MC_SLAB_BUFFER_SIZE
     THEN reset([m EXCEPT !.strikes = @ + 1])
     ELSE reset(m)

mc_slab_start(m, maxs) ==
  LET reset(x) == [x EXCEPT !.slab_total = 0,
                            !.slabs[1].read = 0,
                            !.slabs[1].size = 0,
                            !.curr_slab = 1]
  IN IF m.nb_slabs >= 2 /\ m.strikes >= maxs
     THEN reset(free_tail([m EXCEPT !.strikes = 0],
                          nb_slabs_to_free(m.nb_slabs)))
     ELSE IF m.nb_slabs >= 2
             /\ m.slab_total <= (m.nb_slabs - 1) * MC_SLAB_BUFFER_SIZE
     THEN reset([m EXCEPT !.strikes = @ + 1])
     ELSE reset([m EXCEPT !.strikes = 0])

mc_slab_next_noreset(m, slab) ==
  IF SlabNextPtr(m, slab) = 0
  THEN [m EXCEPT !.nb_slabs = @ + 1,
                 !.slabs = Append(@, NewSlab),
                 !.tail = Len(m.slabs) + 1,
                 !.curr_slab = Len(m.slabs) + 1]
  ELSE [m EXCEPT !.curr_slab = slab + 1]

mc_slab_next(m, slab) ==
  IF SlabNextPtr(m, slab) = 0
  THEN [m EXCEPT !.nb_slabs = @ + 1,
                 !.slabs = Append(@, NewSlab),
                 !.tail = Len(m.slabs) + 1,
                 !.curr_slab = Len(m.slabs) + 1]
  ELSE [m EXCEPT !.slabs[slab + 1].size = 0,
                 !.slabs[slab + 1].read = 0,
                 !.curr_slab = slab + 1]

RECURSIVE put_loop(_, _, _)
put_loop(m, slab, data) ==
  IF data = <<>> THEN m
  ELSE LET sz == m.slabs[slab].size
           put == Min(MC_SLAB_BUFFER_SIZE - sz, Len(data))
           m1 == [m EXCEPT
                    !.slabs[slab].buf =
                       [i \in 1..MC_SLAB_BUFFER_SIZE |->
                          IF i > sz /\ i <= sz + put THEN data[i - sz] ELSE @[i]],
                    !.slabs[slab].size = @ + put,
                    !.slab_total = @ + put]
           rest == SubSeq(data, put + 1, Len(data))
       IN IF rest # <<>>
          THEN LET m2 == mc_slab_next(m1, slab)
               IN put_loop(m2, m2.curr_slab, rest)
          ELSE m1

\* The ring after mc_put_buffer(data); the call returns Len(data).
mc_put_buffer(m, data) == put_loop(m, m.curr_slab, data)

RECURSIVE get_loop(_, _, _, _)
get_loop(m, slab, len, acc) ==
  IF len = 0 \/ slab = 0 THEN [m |-> m, data |-> acc, left |-> len]
  ELSE LET s == m.slabs[slab]
           get == Min(s.size - s.read, len)
           m1 == [m EXCEPT !.slabs[slab].read = @ + get,
                           !.slab_total = @ - get]
           out == acc \o SubSeq(s.buf, s.read + 1, s.read + get)
       IN IF len - get # 0
          THEN get_loop([m1 EXCEPT !.curr_slab = SlabNextPtr(m, slab)],
                        SlabNextPtr(m, slab), len - get, out)
          ELSE [m |-> m1, data |-> out, left |-> 0]

\* mc_get_buffer(size): the ring afterwards, the bytes copied out, and the
\* return value size - len.
mc_get_buffer(m, size) ==
  LET r == get_loop(m, m.curr_slab, size, <<>>)
  IN [m |-> r.m, data |-> r.data, ret |-> size - r.left]

\* ------------------------------------------------------ RDMA write engine: data
\* Addresses and lengths are counted in pages of half a MiB, so that a
\* registration chunk of 1 MiB is RDMA_REG_CHUNK_PAGES pages.  The RAM
\* address space holds two blocks one after the other: block 0 of RamChunks
\* chunks and block 1 of one chunk.
BlockChunks == <<RamChunks, 1>>
RdmaBlocks == 0..(Len(BlockChunks) - 1)
RdmaContexts == {"lc_remote", "lc_src"}
BlockPages(b) == BlockChunks[b + 1] * RDMA_REG_CHUNK_PAGES
BlockOffset(b) == IF b = 0 THEN 0 ELSE BlockPages(0)
RdmaPages == 0..(BlockOffset(1) + BlockPages(1) - 1)
RDMA_MERGE_MAX == 2 * RDMA_REG_CHUNK_PAGES
\* Slots of rdma->unregistrations: RDMA_MERGE_MAX / 4096 in the source,
\* here one slot for every two pages of the cap.
RDMA_SEND_MAX == RDMA_MERGE_MAX \div 2

\* The wr_id is a 64-bit word: bits 0..15 the type, bits 16..29 the block
\* index, bits 30 and up the chunk.
WridTypeSpan == 2 ^ RDMA_WRID_BLOCK_SHIFT
WridBlockSpan == 2 ^ (RDMA_WRID_CHUNK_SHIFT - RDMA_WRID_BLOCK_SHIFT)

qemu_rdma_make_wrid(wr_id, index, chunk) ==
  [type |-> wr_id % WridTypeSpan,
   block |-> index % WridBlockSpan,
   chunk |-> chunk + (index \div WridBlockSpan)]

test_bit(nr, bitmap) == nr \in bitmap
set_bit(nr, bitmap) == bitmap \cup {nr}
clear_bit(nr, bitmap) == bitmap \ {nr}

\* Chunk index of a page of a block, and the end of chunk i of a block,
\* both relative to the block's start.
ram_chunk_index(page) == page \div RDMA_REG_CHUNK_PAGES
ram_chunk_end(b, i) == Min((i + 1) * RDMA_REG_CHUNK_PAGES, BlockPages(b))

\* RDMACurrentChunk after qemu_rdma_data_init.
NoChunk ==
  [current_block_idx |-> 0 - 1, current_chunk |-> 0 - 1,
   current_addr |-> 0, current_length |-> 0]

NoReq == [addr |-> 0 - 1]
WIdle == [pc |-> "idle", lc |-> "lc_remote", req |-> NoReq, drain |-> FALSE]

\* ------------------------------------------- chunk registration on demand
\* pin_all is off.  The source saves pages of RAM block 0 through
\* chunk_cur["lc_remote"]; the destination runs
\* qemu_rdma_registration_handle.  The source sends a request only after
\* the destination's READY, that is after the destination has taken the
\* request before: reg_wire holds the one request sent and not yet taken,
\* reg_resp the one response sent and not yet taken.
RegChunks == 0..(RamChunks - 1)
NoMsg == [type |-> "NONE", chunk |-> 0 - 1]
RIdle == [pc |-> "idle", caller |-> "none", addr |-> 0 - 1]
RHist0 == [flushes |-> 0, compress |-> 0, writes |-> 0,
           regs |-> [c \in RegChunks |-> 0],
           unregs |-> [c \in RegChunks |-> 0],
           last |-> [chunk |-> 0 - 1, zero |-> FALSE, ret |-> 0]]
\* The rkey of the memory region the destination registers for a chunk.
RkeyOf(chunk) == chunk + 1
\* The wr_id of an empty slot of rdma->unregistrations.
NoWrid == qemu_rdma_make_wrid(0, 0, 0)


Shk0 == [streak |-> 0, nb0 |-> 1, shrunk |-> FALSE]
\* No entry point running.
NoSync == [kind |-> "NONE", nb |-> 0, len |-> 0]
Sync0 == [pc |-> "idle", entry |-> "none", lc |-> "lc_remote",
          last |-> NoSync, ret |-> 0, closed |-> FALSE]
\* Connection setup not begun.
NoCap == [version |-> 0, flags |-> 0]
CapNeg0 == [pc |-> "connect", order |-> [p \in Peers |-> "le"],
            pin_all |-> [p \in Peers |-> FALSE],
            do_keepalive |-> [p \in Peers |-> FALSE],
            known_capabilities |-> 0, version_current |-> 1, wire |-> NoCap,
            requested |-> 0, reply |-> 0]
\* The statics of migration-checkpoint.c at program start.
NicCtl0 == [sock |-> FALSE, qdisc |-> FALSE, tc |-> FALSE,
            link_cache |-> FALSE, ops |-> FALSE, tm |-> FALSE,
            first_nic_chosen |-> 0]
NicHist0 == [n |-> 0, ops |-> <<>>, rets |-> <<>>,
             pre |-> [en |-> 0, ctl |-> NicCtl0]]

\* ------------------------------------------------------- block registry
\* rdma->local_ram_blocks is an array of blocks that every add and delete
\* allocates anew (gen tells the new array from the old one); rdma->blockmap
\* is a hash table from a block's offset to a pointer to its array element:
\* the array it points into and the position in it.
EmptyMap == [k \in {} |-> 0]
EmptyRegistry ==
  [local |-> [gen |-> 0, init |-> FALSE, block |-> <<>>], map |-> EmptyMap]

g_hash_table_insert(map, key, value) ==
  [k \in DOMAIN map \cup {key} |-> IF k = key THEN value ELSE map[k]]
g_hash_table_remove(map, key) ==
  [k \in DOMAIN map \ {key} |-> map[k]]

\* The loop of __qemu_rdma_add_block from x on: the entry of every block
\* of the old array is replaced by one that points into the new array.
RECURSIVE add_block_remap(_, _, _, _)
add_block_remap(map, old, gen, x) ==
  IF x >= Len(old) THEN map
  ELSE add_block_remap(
         g_hash_table_insert(g_hash_table_remove(map, old[x + 1].offset),
                             old[x + 1].offset, [gen |-> gen, pos |-> x]),
         old, gen, x + 1)

\* Only the first block of the array is a RAM block.
qemu_rdma_add_block_firstonly(reg, block_offset) ==
  LET old == reg.local.block
      gen == 1 - reg.local.gen
      nb_blocks == Len(old)
      map1 == add_block_remap(reg.map, old, gen, 0)
  IN [local |-> [gen |-> gen,
                 init |-> reg.local.init,
                 block |-> Append(old, [offset |-> block_offset,
                                        index |-> nb_blocks,
                                        is_ram_block |-> nb_blocks = 0])],
      map |-> g_hash_table_insert(map1, block_offset,
                                  [gen |-> gen, pos |-> nb_blocks])]

\* __qemu_rdma_add_block (the caller has made sure the offset is new):
\* block->is_ram_block = local->init ? false : true.
qemu_rdma_add_block_(reg, block_offset) ==
  LET old == reg.local.block
      gen == 1 - reg.local.gen
      nb_blocks == Len(old)
      map1 == add_block_remap(reg.map, old, gen, 0)
  IN [local |-> [gen |-> gen,
                 init |-> reg.local.init,
                 block |-> Append(old, [offset |-> block_offset,
                                        index |-> nb_blocks,
                                        is_ram_block |-> ~reg.local.init])],
      map |-> g_hash_table_insert(map1, block_offset,
                                  [gen |-> gen, pos |-> nb_blocks])]

\* The loops of __qemu_rdma_delete_block over the blocks of an array.
RECURSIVE delete_block_unmap(_, _, _)
delete_block_unmap(map, old, x) ==
  IF x >= Len(old) THEN map
  ELSE delete_block_unmap(g_hash_table_remove(map, old[x + 1].offset),
                          old, x + 1)

RECURSIVE delete_block_map(_, _, _, _)
delete_block_map(map, new, gen, x) ==
  IF x >= Len(new) THEN map
  ELSE delete_block_map(
         g_hash_table_insert(map, new[x + 1].offset, [gen |-> gen, pos |-> x]),
         new, gen, x + 1)

delete_block_reindex_keep(b) == b
\* end[x].index-- for a block behind the deleted one.
delete_block_reindex(b) == [b EXCEPT !.index = @ - 1]

\* __qemu_rdma_delete_block (the offset is in the map): block is the
\* array element the map points to.
qemu_rdma_delete_block_(reg, block_offset) ==
  LET old == reg.local.block
      gen == 1 - reg.local.gen
      nb_blocks == Len(old)
      block == old[reg.map[block_offset].pos + 1]
      map1 == delete_block_unmap(reg.map, old, 0)
      new == IF nb_blocks > 1
             THEN [x \in 1..(nb_blocks - 1) |->
                     IF x <= block.index THEN old[x]
                     ELSE delete_block_reindex(old[x + 1])]
             ELSE <<>>
  IN [local |-> [gen |-> gen, init |-> reg.local.init, block |-> new],
      map |-> delete_block_map(map1, new, gen, 0)]

\* qemu_ram_foreach_block(qemu_rdma_init_one_block, rdma): one add for
\* every RAM block of the guest.
RECURSIVE qemu_ram_foreach_block(_)
qemu_ram_foreach_block(offsets) ==
  IF offsets = <<>> THEN EmptyRegistry
  ELSE qemu_rdma_add_block_(
         qemu_ram_foreach_block(SubSeq(offsets, 1, Len(offsets) - 1)),
         offsets[Len(offsets)])

\* qemu_rdma_init_ram_blocks: the guest's RAM blocks are added, and then
\* local->init = true.
qemu_rdma_init_ram_blocks(offsets) ==
  [qemu_ram_foreach_block(offsets) EXCEPT !.local.init = TRUE]

\* qemu_rdma_cleanup: the first block is deleted until none is left.
RECURSIVE delete_all_blocks(_)
delete_all_blocks(reg) ==
  IF reg.local.block = <<>> THEN reg
  ELSE delete_all_blocks(
         qemu_rdma_delete_block_(reg, reg.local.block[1].offset))

Registry0 == qemu_rdma_init_ram_blocks(<<0, 1>>)

\* --------------------------------------------- the ring driven on its own
\* MCParams before qemu_fopen_mc and after mc_close: no head.
NoRing ==
  [slabs |-> <<>>, curr_slab |-> 0, tail |-> 0,
   slab_total |-> 0, nb_slabs |-> 0, strikes |-> 0]

Hist0 ==
  [p_init_ack |-> FALSE, p_acks |-> 0, commits |-> 0, flush_tick |-> 0,
   barrier |-> FALSE, p_failed |-> FALSE, q_failed |-> FALSE,
   p_cmd |-> <<>>, p_got |-> <<>>, s_cmd |-> <<>>,
   s_acks |-> 0, s_loads |-> 0, s_got |-> 0, s_done |-> 0,
   sent_size |-> 0, sent_bytes |-> 0,
   cleanup_bh |-> 0, out_en |-> 0]

RingInit ==
  /\ mc = qemu_fopen_mc
  /\ rput = <<>> /\ rgot = <<>> /\ rreq = 0 /\ rret = 0
  /\ rphase = "put" /\ rshrunk = 0
  /\ freq_ms \in FreqChoices
  /\ max_strikes = CALC_MAX_STRIKES(MC_DEFAULT_SLAB_MAX_CHECK_DELAY_SECS, freq_ms)
  /\ ppc = "idle" /\ mstate = "ACTIVE" /\ pmc = NoRing /\ mc_staging = FALSE
  /\ vm_running = TRUE /\ tick = 0 /\ bytes_xfer = 0
  /\ to_save = 0 /\ save_val = 0 /\ pslab = 0 /\ pret = 0
  /\ p2s = <<>> /\ s2p = <<>> /\ link = "up"
  /\ spc = "idle" /\ smc = NoRing /\ checkpoint_size = 0 /\ received = 0
  /\ sslab = 0
  /\ buffering_enabled = 0 /\ qplugged = FALSE /\ qqueue = <<>>
  /\ released = {}
  /\ hist = Hist0
  /\ transit_bitmap = [b \in RdmaBlocks |-> {}]
  /\ nb_sent = 0 /\ lc_nb_sent = [lc \in RdmaContexts |-> 0]
  /\ chunk_cur = [lc \in RdmaContexts |-> NoChunk]
  /\ sendq = [lc \in RdmaContexts |-> <<>>]
  /\ wpc = WIdle /\ error_state = 0
  /\ posted_recv = [p \in Peers |-> <<RDMA_WRID_READY>>]
  /\ recv_cq = [p \in Peers |-> <<>>]
  /\ control_ready_expected = [p \in Peers |-> IF p = "src" THEN 1 ELSE 0]
  /\ cpc = [p \in Peers |-> "idle"] /\ peer_error = [p \in Peers |-> 0]
  /\ creq = "NONE" /\ chist = CHist0
  /\ blockmap = Registry0.map /\ local_ram_blocks = Registry0.local
  /\ entry = Entry0 /\ work_posted = 0
  /\ migration_started = FALSE /\ keepalive = 0 /\ last_keepalive = 0
  /\ nb_missed_keepalive = 0 /\ keepalive_startup = FALSE
  /\ qp_state = "IBV_QPS_RTS" /\ connection_timer = 0
  /\ keepalive_timer = FALSE /\ hka = [run |-> 0, checks |-> 0]
  /\ remote_keys = [c \in RegChunks |-> 0]
  /\ pmr = [p \in Peers |-> {}]
  /\ unregistrations = [i \in 0..(RDMA_SEND_MAX - 1) |-> NoWrid]
  /\ unregister_current = 0 /\ unregister_next = 0
  /\ unregister_bitmap = {}
  /\ reg_wire = NoMsg /\ reg_resp = NoMsg /\ dblock = "unset"
  /\ reg_hist = RHist0 /\ reg_pc = RIdle
  /\ m_cc = NoChunk /\ m_start = 0 /\ m_saved = 0 /\ m_flushes = 0
  /\ m_pc = "saving"
  /\ shk = Shk0
  /\ nics = <<"tap">> /\ nic_ctl = NicCtl0 /\ nic_hist = NicHist0
  /\ capneg = CapNeg0
  /\ sync = Sync0

\* reset-for-checkpoint
R_SlabStart ==
  /\ mc' = mc_slab_start(mc, max_strikes)
  /\ rshrunk' = mc.nb_slabs - mc'.nb_slabs
  /\ rput' = <<>> /\ rgot' = <<>> /\ rreq' = 0 /\ rret' = 0
  /\ rphase' = "put"
  /\ UNCHANGED <<cfgvars, mcvars, rdmavars, transportvars>>

\* One put_buffer call of the byte-stream adapter.  Byte i of the checkpoint
\* carries the value i, so that loss, duplication and reordering all show.
R_Put ==
  /\ rphase = "put"
  /\ \E n \in 1..MaxChunk :
       /\ Len(rput) + n <= MaxLen
       /\ LET data == [i \in 1..n |-> Len(rput) + i]
          IN /\ mc' = mc_put_buffer(mc, data)
             /\ rput' = rput \o data
             /\ rret' = n
  /\ UNCHANGED <<rgot, rreq, rphase, rshrunk, cfgvars, mcvars, rdmavars, transportvars>>

\* mc.curr_slab = mc.head, as both loops do before the ring is read.
R_Rewind ==
  /\ rphase = "put"
  /\ mc' = [mc EXCEPT !.curr_slab = 1]
  /\ rphase' = "get"
  /\ UNCHANGED <<rput, rgot, rreq, rret, rshrunk, cfgvars, mcvars, rdmavars, transportvars>>

R_Get ==
  /\ rphase = "get"
  /\ \E n \in 1..MaxChunk :
       /\ rreq + n <= MaxLen
       /\ LET r == mc_get_buffer(mc, n)
          IN /\ mc' = r.m
             /\ rgot' = rgot \o r.data
             /\ rret' = r.ret
             /\ rreq' = rreq + n
  /\ UNCHANGED <<rput, rphase, rshrunk, cfgvars, mcvars, rdmavars, transportvars>>

RingNext == R_SlabStart \/ R_Put \/ R_Rewind \/ R_Get


SpecRing == RingInit /\ [][RingNext]_vars

\* ------------------------------------------------- traffic-buffer controller
\* The plug qdisc is the kernel's: a queue of held packets and barriers.
\* Pass-through (release-indefinite) is qplugged = FALSE.
Barrier == [bar |-> TRUE, k |-> 0]
Packet(k) == [bar |-> FALSE, k |-> k]

QD == [en |-> buffering_enabled, plugged |-> qplugged, queue |-> qqueue,
       rel |-> released, failed |-> hist.q_failed]

FirstBarrier(q) ==
  IF \E i \in 1..Len(q) : q[i].bar
  THEN CHOOSE i \in 1..Len(q) : q[i].bar /\ \A j \in 1..(i - 1) : ~q[j].bar
  ELSE 0

Out(q, from, to, acked, how) ==
  {[k |-> q[i].k, acked |-> acked, how |-> how] :
     i \in {j \in from..to : ~q[j].bar}}

\* rtnl_qdisc_plug_buffer + mc_deliver: insert-barrier.
plug_buffer(d) ==
  [d EXCEPT !.plugged = TRUE, !.queue = Append(@, Barrier)]

\* rtnl_qdisc_plug_release_one + mc_deliver: release up to the oldest barrier.
plug_release_one(d, acked) ==
  LET b == FirstBarrier(d.queue)
  IN IF b = 0 THEN d
     ELSE [d EXCEPT !.queue = SubSeq(@, b + 1, Len(@)),
                    !.rel = @ \cup Out(d.queue, 1, b, acked, "one")]

\* rtnl_qdisc_plug_release_indefinite + mc_deliver.
plug_release_indefinite(d, acked) ==
  [d EXCEPT !.plugged = FALSE, !.queue = <<>>,
            !.rel = @ \cup Out(d.queue, 1, Len(d.queue), acked, "indef")]

\* ok: whether the netlink calls of the operation succeed.
mc_start_buffer(d, ok) ==
  IF d.en = 0 THEN d
  ELSE IF ok THEN plug_buffer(d) ELSE [d EXCEPT !.failed = TRUE]

mc_flush_oldest_buffer(d, ok, acked) ==
  IF d.en = 0 THEN d
  ELSE IF ok THEN plug_release_one(d, acked) ELSE [d EXCEPT !.failed = TRUE]

mc_suspend_buffering(d, ok, acked) ==
  IF d.en = 0 THEN d
  ELSE IF ok THEN plug_release_indefinite(d, acked)
       ELSE [d EXCEPT !.failed = TRUE]

mc_disable_buffering(d, ok, acked) ==
  [(IF d.en = 0 THEN d ELSE mc_suspend_buffering(d, ok, acked))
     EXCEPT !.en = 0]

mc_enable_buffering(d, ok) ==
  IF d.en # 0 THEN d
  ELSE IF ok THEN mc_suspend_buffering([d EXCEPT !.en = 1], TRUE, 0)
       ELSE mc_disable_buffering([d EXCEPT !.en = 1, !.failed = TRUE], TRUE, 0)

SetQD(d) ==
  /\ buffering_enabled' = d.en
  /\ qplugged' = d.plugged
  /\ qqueue' = d.queue
  /\ released' = d.rel

\* --------------------------------------------------------- control words
Word(v) == [t |-> "word", v |-> v]
Data(v) == [t |-> "data", v |-> v]

\* mc_send: the word goes out unless the socket has failed.
mc_send_ret(err) == IF err THEN 0 - EIO ELSE 0

mc_recv_ret_unchecked(err, got, request) == 0

\* mc_recv: a receive error, or a word other than the one expected.
mc_recv_ret(err, got, request) ==
  IF err THEN 0 - EIO
  ELSE IF request # got THEN 0 - EINVAL ELSE 0

\* be32 read from the stream: a control word, or the leading four bytes of
\* a granule of VM state (which holds many more).
WordAt(ch) == ch[1].v
AfterWord(ch) == IF ch[1].t = "word" THEN Tail(ch) ELSE ch

\* migrate_set_state(s, old, new)
migrate_set_state(st, old, new) == IF st = old THEN new ELSE st

\* ---------------------------------------------------------------- primary
\* mc_enable_buffering, called before the checkpointer starts.
B_Enable ==
  /\ ppc = "idle" /\ buffering_enabled = 0 /\ ~hist.q_failed
  /\ \E ok \in BOOLEAN :
       LET d == mc_enable_buffering(QD, ok)
       IN SetQD(d) /\ hist' = [hist EXCEPT !.q_failed = d.failed]
  /\ UNCHANGED <<privars, chanvars, secvars, ringvars, cfgvars, rdmavars, transportvars>>

\* mc_start_checkpointer: ACTIVE -> MC, thread created; mc_thread opens its
\* control files and the staging ring.
P_Start ==
  /\ ppc = "idle"
  /\ mstate' = migrate_set_state(mstate, "ACTIVE", "MC")
  /\ \E ok \in BOOLEAN :
       IF ok
       THEN /\ pmc' = qemu_fopen_mc /\ mc_staging' = TRUE
            /\ ppc' = "init_ack" /\ hist' = hist
       ELSE /\ UNCHANGED <<pmc, mc_staging>>
            /\ ppc' = "err" /\ hist' = [hist EXCEPT !.p_failed = TRUE]
  /\ UNCHANGED <<vm_running, tick, bytes_xfer, to_save, save_val, pslab, pret, chanvars, secvars, bufvars,
                 ringvars, cfgvars, rdmavars, transportvars>>

\* The loop entered without waiting for the secondary.
P_RecvInitAck_nowait ==
  /\ ppc = "init_ack"
  /\ ppc' = "tick"
  /\ UNCHANGED <<mstate, pmc, mc_staging, vm_running, tick, bytes_xfer,
                 to_save, save_val, pslab, pret, chanvars, hist,
                 secvars, bufvars, ringvars, cfgvars, rdmavars, transportvars>>

\* One ACK from the secondary is required to kick everything off.
P_RecvInitAck ==
  /\ ppc = "init_ack"
  /\ link = "down" \/ s2p # <<>>
  /\ LET err == link = "down"
         got == IF err THEN 0 ELSE WordAt(s2p)
         ret == mc_recv_ret(err, got, MC_TRANSACTION_ACK)
     IN /\ s2p' = IF err THEN s2p ELSE Tail(s2p)
        /\ IF ret < 0
           THEN /\ ppc' = "err"
                /\ hist' = [hist EXCEPT !.p_failed = TRUE]
           ELSE /\ ppc' = "tick"
                /\ hist' = [hist EXCEPT
                              !.p_init_ack = ~err /\ got = MC_TRANSACTION_ACK,
                              !.p_got = <<got>>]
  /\ UNCHANGED <<mstate, pmc, mc_staging, vm_running, tick, bytes_xfer,
                 to_save, save_val, pslab, pret, p2s,
                 link, secvars, bufvars, ringvars, cfgvars, rdmavars, transportvars>>

\* The tick with the barrier step left out.
P_TickPause_nobarrier ==
  /\ ppc = "tick" /\ mstate = "MC" /\ tick < MaxTicks
  /\ pmc' = mc_slab_start(pmc, max_strikes)
  /\ vm_running' = FALSE
  /\ hist' = [hist EXCEPT !.barrier = FALSE]
  /\ ppc' = "save"
  /\ pslab' = 1
  /\ UNCHANGED <<mstate, mc_staging, tick, bytes_xfer, to_save, save_val, pret,
                 chanvars, secvars, bufvars, ringvars, cfgvars, rdmavars, transportvars>>

\* while (s->state == MIG_STATE_MC): mc_slab_start, then capture_checkpoint
\* up to vm_stop_force_state.
P_TickPause ==
  /\ ppc = "tick" /\ mstate = "MC" /\ tick < MaxTicks
  /\ pmc' = mc_slab_start(pmc, max_strikes)
  /\ vm_running' = FALSE
  /\ hist' = [hist EXCEPT !.barrier = FALSE]
  /\ ppc' = "barrier"
  /\ pslab' = 1
  /\ UNCHANGED <<mstate, mc_staging, tick, bytes_xfer, to_save, save_val, pret,
                 chanvars, secvars, bufvars, ringvars, cfgvars, rdmavars, transportvars>>

\* The loop condition fails: the state has left MC.
P_LoopExit ==
  /\ ppc = "tick" /\ mstate # "MC"
  /\ ppc' = "out"
  /\ UNCHANGED <<mstate, pmc, mc_staging, vm_running, tick, bytes_xfer,
                 to_save, save_val, pslab, pret,
                 chanvars, secvars, bufvars, hist, ringvars, cfgvars, rdmavars, transportvars>>

\* capture_checkpoint: mc_start_buffer(), its result not looked at.
P_StartBuffer ==
  /\ ppc = "barrier"
  /\ \E ok \in BOOLEAN :
       LET d == mc_start_buffer(QD, ok)
       IN /\ SetQD(d)
          /\ hist' = [hist EXCEPT !.barrier = TRUE, !.q_failed = d.failed]
  /\ ppc' = "save"
  /\ UNCHANGED <<mstate, pmc, mc_staging, vm_running, tick, bytes_xfer,
                 to_save, save_val, pslab, pret,
                 chanvars, secvars, ringvars, cfgvars, rdmavars, transportvars>>

\* capture_checkpoint: qemu_reset_buffer, qemu_savevm_state_begin.  n is
\* the amount of VM state this checkpoint will stage, v what it holds.
P_SaveBegin(sizes, vals) ==
  /\ ppc = "save"
  /\ \E n \in sizes, v \in vals : to_save' = n /\ save_val' = v
  /\ ppc' = "saving"
  /\ UNCHANGED <<mstate, pmc, mc_staging, vm_running, tick, bytes_xfer, pslab,
                 pret, chanvars, secvars, bufvars, hist, ringvars, cfgvars, rdmavars, transportvars>>

\* The save writes through the staging file, which hands its buffer to
\* mc_put_buffer each time it fills.
P_SavePut ==
  /\ ppc = "saving" /\ to_save > 0
  /\ LET n == Min(to_save, SaveChunk)
     IN /\ pmc' = mc_put_buffer(pmc, [i \in 1..n |-> save_val])
        /\ to_save' = to_save - n
  /\ UNCHANGED <<ppc, mstate, mc_staging, vm_running, tick, bytes_xfer,
                 save_val, pslab, pret, chanvars, secvars, bufvars, hist,
                 ringvars, cfgvars, rdmavars, transportvars>>

\* qemu_savevm_state_complete returned without a file error.
P_SaveComplete ==
  /\ ppc = "saving" /\ to_save = 0
  /\ ppc' = "resume"
  /\ UNCHANGED <<mstate, pmc, mc_staging, vm_running, tick, bytes_xfer,
                 to_save, save_val, pslab, pret, chanvars, secvars, bufvars,
                 hist, ringvars, cfgvars, rdmavars, transportvars>>

\* A file error during the save: the state goes to ERROR and the function
\* returns at out:, without vm_start; mc_thread breaks out of its loop.
P_SaveFail ==
  /\ ppc = "saving"
  /\ mstate' = migrate_set_state(mstate, "MC", "ERROR")
  /\ ppc' = "out"
  /\ hist' = [hist EXCEPT !.p_failed = TRUE]
  /\ UNCHANGED <<pmc, mc_staging, vm_running, tick, bytes_xfer, to_save,
                 save_val, pslab, pret, chanvars, secvars, bufvars, ringvars,
                 cfgvars, rdmavars, transportvars>>

\* capture_checkpoint: vm_start, qemu_fflush(staging); back in mc_thread,
\* s->bytes_xfer = qemu_ftell(mc_staging).
P_Resume ==
  /\ ppc = "resume"
  /\ vm_running' = TRUE
  /\ tick' = tick + 1
  /\ bytes_xfer' = pmc.slab_total
  /\ ppc' = "commit"
  /\ UNCHANGED <<mstate, pmc, mc_staging, to_save, save_val, pslab, pret,
                 chanvars, secvars, bufvars, hist, ringvars, cfgvars, rdmavars, transportvars>>

\* if ((ret = mc_send(mc_write, MC_TRANSACTION_COMMIT) < 0)) break;
P_SendCommit ==
  /\ ppc = "commit"
  /\ LET ret == mc_send_ret(link = "down")
     IN IF ret < 0
        THEN /\ ppc' = "out"
             /\ p2s' = p2s
             /\ hist' = [hist EXCEPT !.p_failed = TRUE]
        ELSE /\ ppc' = "size"
             /\ p2s' = Append(p2s, Word(MC_TRANSACTION_COMMIT))
             /\ hist' = [hist EXCEPT !.commits = @ + 1,
                                     !.p_cmd = <<MC_TRANSACTION_COMMIT>>]
  /\ UNCHANGED <<mstate, pmc, mc_staging, vm_running, tick, bytes_xfer,
                 to_save, save_val, pslab, pret, s2p,
                 link, secvars, bufvars, ringvars, cfgvars, rdmavars, transportvars>>

\* qemu_put_be32(mc_write, s->bytes_xfer): the low 32 bits of the count.
put_be32(v) == v % Word32

P_SendSize ==
  /\ ppc = "size"
  /\ p2s' = IF link = "down" THEN p2s ELSE Append(p2s, Word(put_be32(bytes_xfer)))
  /\ hist' = [hist EXCEPT !.sent_size = put_be32(bytes_xfer), !.sent_bytes = 0]
  /\ pret' = 1
  /\ pmc' = [pmc EXCEPT !.curr_slab = 1]
  /\ ppc' = "slabs"
  /\ UNCHANGED <<mstate, mc_staging, vm_running, tick, bytes_xfer, to_save,
                 save_val, pslab, s2p, link, secvars, bufvars, ringvars,
                 cfgvars, rdmavars, transportvars>>

\* One pass of while (slab && slab->size): qemu_send_full of the slab's
\* bytes unless an earlier send failed, then the slab is emptied.
P_SendSlab ==
  /\ ppc = "slabs" /\ pslab # 0 /\ pmc.slabs[pslab].size # 0
  /\ LET s == pmc.slabs[pslab]
         try == pret > 0
         ok == try /\ link = "up"
     IN /\ p2s' = IF ok
                  THEN p2s \o [i \in 1..s.size |-> Data(s.buf[i])]
                  ELSE p2s
        /\ pret' = IF ok THEN s.size ELSE IF try THEN 0 - 1 ELSE pret
        /\ hist' = [hist EXCEPT !.sent_bytes = IF ok THEN @ + s.size ELSE @]
  /\ pmc' = [pmc EXCEPT !.slabs[pslab].size = 0, !.slabs[pslab].read = 0]
  /\ pslab' = SlabNextPtr(pmc, pslab)
  /\ UNCHANGED <<ppc, mstate, mc_staging, vm_running, tick, bytes_xfer,
                 to_save, save_val, s2p, link, secvars, bufvars, ringvars,
                 cfgvars, rdmavars, transportvars>>

\* After the loop: a failed send, or an error on the migration file, goes
\* to err.
P_SendDone ==
  /\ ppc = "slabs"
  /\ IF pslab = 0 THEN TRUE ELSE pmc.slabs[pslab].size = 0
  /\ IF pret <= 0 \/ link = "down"
     THEN ppc' = "err" /\ hist' = [hist EXCEPT !.p_failed = TRUE]
     ELSE ppc' = "ack" /\ hist' = hist
  /\ UNCHANGED <<mstate, pmc, mc_staging, vm_running, tick, bytes_xfer,
                 to_save, save_val, pslab, pret, chanvars, secvars, bufvars,
                 ringvars, cfgvars, rdmavars, transportvars>>

\* Waiting for commit ACK.
P_RecvAck ==
  /\ ppc = "ack"
  /\ link = "down" \/ s2p # <<>>
  /\ LET err == link = "down"
         got == IF err THEN 0 ELSE WordAt(s2p)
         ret == mc_recv_ret(err, got, MC_TRANSACTION_ACK)
     IN /\ s2p' = IF err THEN s2p ELSE Tail(s2p)
        /\ IF ret < 0
           THEN /\ ppc' = "err"
                /\ hist' = [hist EXCEPT !.p_failed = TRUE]
           ELSE /\ ppc' = "flush"
                /\ hist' = [hist EXCEPT
                              !.p_acks = IF ~err /\ got = MC_TRANSACTION_ACK
                                         THEN @ + 1 ELSE @,
                              !.p_got = <<got>>]
  /\ UNCHANGED <<mstate, pmc, mc_staging, vm_running, tick, bytes_xfer,
                 to_save, save_val, pslab, pret, p2s,
                 link, secvars, bufvars, ringvars, cfgvars, rdmavars, transportvars>>

\* mc_flush_oldest_buffer(), its result not looked at.
P_Flush ==
  /\ ppc = "flush"
  /\ \E ok \in BOOLEAN :
       LET d == mc_flush_oldest_buffer(QD, ok, hist.p_acks)
       IN /\ SetQD(d)
          /\ hist' = [hist EXCEPT !.flush_tick = tick, !.q_failed = d.failed]
  /\ ppc' = "sleep"
  /\ UNCHANGED <<mstate, pmc, mc_staging, vm_running, tick, bytes_xfer,
                 to_save, save_val, pslab, pret,
                 chanvars, secvars, ringvars, cfgvars, rdmavars, transportvars>>

\* g_usleep(freq_ms * 1000)
P_Sleep ==
  /\ ppc = "sleep"
  /\ ppc' = "tick"
  /\ UNCHANGED <<mstate, pmc, mc_staging, vm_running, tick, bytes_xfer,
                 to_save, save_val, pslab, pret,
                 chanvars, secvars, bufvars, hist, ringvars, cfgvars, rdmavars, transportvars>>

\* The thread returning from err: at once.
P_Err_return ==
  /\ ppc = "err"
  /\ mstate' = migrate_set_state(mstate, "MC", "ERROR")
  /\ ppc' = "done"
  /\ UNCHANGED <<pmc, mc_staging, vm_running, tick, bytes_xfer,
                 to_save, save_val, pslab, pret, chanvars,
                 secvars, bufvars, hist, ringvars, cfgvars, rdmavars, transportvars>>

\* err: migrate_set_state(s, MIG_STATE_MC, MIG_STATE_ERROR)
P_Err ==
  /\ ppc = "err"
  /\ mstate' = migrate_set_state(mstate, "MC", "ERROR")
  /\ ppc' = "out"
  /\ UNCHANGED <<pmc, mc_staging, vm_running, tick, bytes_xfer,
                 to_save, save_val, pslab, pret, chanvars,
                 secvars, bufvars, hist, ringvars, cfgvars, rdmavars, transportvars>>

mc_close(m) == [m EXCEPT !.slabs = <<>>, !.curr_slab = 0]

\* out: close the staging ring, disable buffering, settle the final state,
\* schedule the cleanup bottom half.
P_Out ==
  /\ ppc = "out"
  /\ pmc' = IF mc_staging THEN mc_close(pmc) ELSE pmc
  /\ mc_staging' = FALSE
  /\ \E ok \in BOOLEAN :
       LET d == mc_disable_buffering(QD, ok, hist.p_acks)
       IN SetQD(d) /\ hist' = [hist EXCEPT !.q_failed = d.failed,
                                          !.cleanup_bh = @ + 1,
                                          !.out_en = buffering_enabled]
  /\ mstate' = IF mstate # "ERROR"
               THEN migrate_set_state(mstate, "MC", "COMPLETED")
               ELSE mstate
  /\ ppc' = "done"
  /\ UNCHANGED <<vm_running, tick, bytes_xfer, to_save, save_val, pslab, pret, chanvars, secvars, ringvars,
                 cfgvars, rdmavars, transportvars>>

\* ------------------------------------------------------------ environment
\* The user cancels: the state leaves MC, seen at the next loop test.
E_Cancel ==
  /\ mstate = "MC" /\ ppc \notin {"idle", "done"}
  /\ mstate' = "CANCELLED"
  /\ UNCHANGED <<ppc, pmc, mc_staging, vm_running, tick, bytes_xfer,
                 to_save, save_val, pslab, pret,
                 chanvars, secvars, bufvars, hist, ringvars, cfgvars, rdmavars, transportvars>>

\* The replication link breaks: every later socket call fails.
E_LinkDown ==
  /\ link = "up" /\ ppc \notin {"idle", "done"}
  /\ link' = "down"
  /\ UNCHANGED <<privars, p2s, s2p, secvars, bufvars, hist, ringvars, cfgvars, rdmavars, transportvars>>

\* The running guest sends packets through the buffered NIC.  The qdisc
\* treats all packets between two barriers alike: one queue entry stands for
\* the packets sent since the resume of tick k.
G_Emit ==
  /\ vm_running /\ buffering_enabled = 1 /\ ppc # "idle"
  /\ IF qplugged
     THEN /\ \A i \in 1..Len(qqueue) : qqueue[i] # Packet(tick)
          /\ qqueue' = Append(qqueue, Packet(tick))
          /\ released' = released
     ELSE /\ qqueue' = qqueue
          /\ released' = released \cup
                {[k |-> tick, acked |-> hist.p_acks, how |-> "pass"]}
          /\ released' # released
  /\ UNCHANGED <<privars, chanvars, secvars, buffering_enabled, qplugged,
                 hist, ringvars, cfgvars, rdmavars, transportvars>>

\* -------------------------------------------------------------- secondary
\* mc_requested is set: open the control files and the staging ring.
S_Start ==
  /\ spc = "idle" /\ ppc # "idle"
  /\ smc' = qemu_fopen_mc
  /\ spc' = "init_ack"
  /\ UNCHANGED <<checkpoint_size, received, sslab, privars, chanvars, bufvars,
                 hist, ringvars, cfgvars, rdmavars, transportvars>>

\* Signaling ready to primary.
S_SendInitAck ==
  /\ spc = "init_ack"
  /\ IF mc_send_ret(link = "down") < 0
     THEN spc' = "rollback" /\ UNCHANGED <<s2p, hist>>
     ELSE /\ spc' = "tick"
          /\ s2p' = Append(s2p, Word(MC_TRANSACTION_ACK))
          /\ hist' = [hist EXCEPT !.s_cmd = <<MC_TRANSACTION_ACK>>]
  /\ UNCHANGED <<smc, checkpoint_size, received, sslab, privars, p2s, link,
                 bufvars, ringvars, cfgvars, rdmavars, transportvars>>

\* slab = mc_slab_start(&mc)
S_SlabStart ==
  /\ spc = "tick" /\ hist.s_done < MaxTicks
  /\ smc' = mc_slab_start(smc, max_strikes)
  /\ sslab' = 1
  /\ spc' = "commit"
  /\ UNCHANGED <<checkpoint_size, received, privars, chanvars, bufvars, hist,
                 ringvars, cfgvars, rdmavars, transportvars>>

\* mc_recv(mc_read, MC_TRANSACTION_COMMIT)
S_RecvCommit ==
  /\ spc = "commit"
  /\ link = "down" \/ p2s # <<>>
  /\ LET err == link = "down"
         got == IF err THEN 0 ELSE WordAt(p2s)
     IN /\ p2s' = IF err THEN p2s ELSE AfterWord(p2s)
        /\ spc' = IF mc_recv_ret(err, got, MC_TRANSACTION_COMMIT) < 0
                  THEN "rollback" ELSE "size"
  /\ UNCHANGED <<smc, checkpoint_size, received, sslab, privars, s2p, link,
                 bufvars, hist, ringvars, cfgvars, rdmavars, transportvars>>

\* The size word taken as it comes.
S_RecvSize_anysize ==
  /\ spc = "size"
  /\ link = "down" \/ p2s # <<>>
  /\ LET err == link = "down"
         got == IF err THEN 0 ELSE WordAt(p2s)
     IN /\ p2s' = IF err THEN p2s ELSE AfterWord(p2s)
        /\ checkpoint_size' = got
        /\ received' = 0
        /\ spc' = "data"
        /\ hist' = [hist EXCEPT !.s_got = 0]
  /\ UNCHANGED <<smc, sslab, privars, s2p, link, bufvars, ringvars, cfgvars, rdmavars, transportvars>>

\* checkpoint_size = qemu_get_be32(mc_read); zero (also what a failed read
\* yields) stops the receiver.
S_RecvSize ==
  /\ spc = "size"
  /\ link = "down" \/ p2s # <<>>
  /\ LET err == link = "down"
         got == IF err THEN 0 ELSE WordAt(p2s)
     IN /\ p2s' = IF err THEN p2s ELSE AfterWord(p2s)
        /\ checkpoint_size' = got
        /\ received' = 0
        /\ spc' = IF got = 0 THEN "rollback" ELSE "data"
        /\ hist' = [hist EXCEPT !.s_got = 0]
  /\ UNCHANGED <<smc, sslab, privars, s2p, link, bufvars, ringvars, cfgvars, rdmavars, transportvars>>

\* The part of the next slab the receive loop asks for.
recv_slab_size(size, got) == Min(size - got, MC_SLAB_BUFFER_SIZE)

\* The receive loop stopping after its first slab.
recv_more_once(got, size) == FALSE

\* while (received < checkpoint_size)
recv_more(got, size) == got < size

DataPrefix(ch, n) ==
  Len(ch) >= n /\ \A i \in 1..n : ch[i].t = "data"

\* One pass of while (received < checkpoint_size): size the slab, fill it
\* from the socket, move to the next slab if more is to come.
S_RecvSlab ==
  /\ spc = "data"
  /\ LET n == recv_slab_size(checkpoint_size, received)
         m1 == [smc EXCEPT !.slabs[sslab].size = n, !.slab_total = @ + n]
     IN \/ /\ link = "up" /\ DataPrefix(p2s, n)
           /\ LET m2 == [m1 EXCEPT !.slabs[sslab].buf =
                            [i \in 1..MC_SLAB_BUFFER_SIZE |->
                               IF i <= n THEN p2s[i].v ELSE @[i]]]
                  m3 == IF received + n # checkpoint_size
                        THEN mc_slab_next(m2, sslab) ELSE m2
              IN /\ smc' = m3
                 /\ sslab' = IF received + n # checkpoint_size
                             THEN m3.curr_slab ELSE sslab
                 /\ received' = received + n
                 /\ p2s' = SubSeq(p2s, n + 1, Len(p2s))
                 /\ hist' = [hist EXCEPT !.s_got = @ + n]
                 /\ spc' = IF recv_more(received + n, checkpoint_size)
                           THEN "data" ELSE "ack"
        \/ /\ link = "down"
           /\ smc' = m1
           /\ spc' = "rollback"
           /\ UNCHANGED <<sslab, received, p2s, hist>>
  /\ UNCHANGED <<checkpoint_size, privars, s2p, link, bufvars, ringvars,
                 cfgvars, rdmavars, transportvars>>

\* mc.curr_slab = mc.head; acknowledging successful commit.
S_SendAck ==
  /\ spc = "ack"
  /\ smc' = [smc EXCEPT !.curr_slab = 1]
  /\ IF mc_send_ret(link = "down") < 0
     THEN spc' = "rollback" /\ UNCHANGED <<s2p, hist>>
     ELSE /\ spc' = "load"
          /\ s2p' = Append(s2p, Word(MC_TRANSACTION_ACK))
          /\ hist' = [hist EXCEPT !.s_acks = @ + 1,
                                  !.s_cmd = <<MC_TRANSACTION_ACK>>]
  /\ UNCHANGED <<checkpoint_size, received, sslab, privars, p2s, link,
                 bufvars, ringvars, cfgvars, rdmavars, transportvars>>

\* qemu_loadvm_state(mc_staging) reads the checkpoint back through
\* mc_get_buffer; slab_total is saved before and restored after.
S_Load ==
  /\ spc = "load"
  /\ LET slab_total_save == smc.slab_total
         r == mc_get_buffer(smc, smc.slab_total)
     IN smc' = [r.m EXCEPT !.slab_total = slab_total_save]
  /\ spc' = "tick"
  /\ hist' = [hist EXCEPT !.s_loads = @ + 1, !.s_done = @ + 1]
  /\ UNCHANGED <<checkpoint_size, received, sslab, privars, chanvars,
                 bufvars, ringvars, cfgvars, rdmavars, transportvars>>

\* qemu_loadvm_state fails: exit(1) ends the process, and with it the
\* secondary's end of the link.
S_LoadFail ==
  /\ spc = "load"
  /\ spc' = "exit"
  /\ link' = "down"
  /\ hist' = [hist EXCEPT !.s_loads = @ + 1]
  /\ UNCHANGED <<smc, checkpoint_size, received, sslab, privars, p2s, s2p,
                 bufvars, ringvars, cfgvars, rdmavars, transportvars>>

Init ==
  /\ mc = NoRing
  /\ rput = <<>> /\ rgot = <<>> /\ rreq = 0 /\ rret = 0
  /\ rphase = "idle" /\ rshrunk = 0
  /\ freq_ms \in FreqChoices
  /\ max_strikes = CALC_MAX_STRIKES(MC_DEFAULT_SLAB_MAX_CHECK_DELAY_SECS, freq_ms)
  /\ ppc = "idle" /\ mstate = "ACTIVE" /\ pmc = NoRing /\ mc_staging = FALSE
  /\ vm_running = TRUE /\ tick = 0 /\ bytes_xfer = 0
  /\ to_save = 0 /\ save_val = 0 /\ pslab = 0 /\ pret = 0
  /\ p2s = <<>> /\ s2p = <<>> /\ link = "up"
  /\ spc = "idle" /\ smc = NoRing /\ checkpoint_size = 0 /\ received = 0
  /\ sslab = 0
  /\ buffering_enabled = 0 /\ qplugged = FALSE /\ qqueue = <<>>
  /\ released = {}
  /\ hist = Hist0
  /\ transit_bitmap = [b \in RdmaBlocks |-> {}]
  /\ nb_sent = 0 /\ lc_nb_sent = [lc \in RdmaContexts |-> 0]
  /\ chunk_cur = [lc \in RdmaContexts |-> NoChunk]
  /\ sendq = [lc \in RdmaContexts |-> <<>>]
  /\ wpc = WIdle /\ error_state = 0
  /\ posted_recv = [p \in Peers |-> <<RDMA_WRID_READY>>]
  /\ recv_cq = [p \in Peers |-> <<>>]
  /\ control_ready_expected = [p \in Peers |-> IF p = "src" THEN 1 ELSE 0]
  /\ cpc = [p \in Peers |-> "idle"] /\ peer_error = [p \in Peers |-> 0]
  /\ creq = "NONE" /\ chist = CHist0
  /\ blockmap = Registry0.map /\ local_ram_blocks = Registry0.local
  /\ entry = Entry0 /\ work_posted = 0
  /\ migration_started = FALSE /\ keepalive = 0 /\ last_keepalive = 0
  /\ nb_missed_keepalive = 0 /\ keepalive_startup = FALSE
  /\ qp_state = "IBV_QPS_RTS" /\ connection_timer = 0
  /\ keepalive_timer = FALSE /\ hka = [run |-> 0, checks |-> 0]
  /\ remote_keys = [c \in RegChunks |-> 0]
  /\ pmr = [p \in Peers |-> {}]
  /\ unregistrations = [i \in 0..(RDMA_SEND_MAX - 1) |-> NoWrid]
  /\ unregister_current = 0 /\ unregister_next = 0
  /\ unregister_bitmap = {}
  /\ reg_wire = NoMsg /\ reg_resp = NoMsg /\ dblock = "unset"
  /\ reg_hist = RHist0 /\ reg_pc = RIdle
  /\ m_cc = NoChunk /\ m_start = 0 /\ m_saved = 0 /\ m_flushes = 0
  /\ m_pc = "saving"
  /\ shk = Shk0
  /\ nics = <<"tap">> /\ nic_ctl = NicCtl0 /\ nic_hist = NicHist0
  /\ capneg = CapNeg0
  /\ sync = Sync0

Next ==
  \/ B_Enable \/ P_Start \/ P_RecvInitAck \/ P_TickPause \/ P_LoopExit
  \/ P_StartBuffer \/ P_SaveBegin(StagedSizes, {1}) \/ P_SavePut \/ P_SaveComplete \/ P_SaveFail
  \/ P_Resume \/ P_SendCommit \/ P_SendSize \/ P_SendSlab \/ P_SendDone
  \/ P_RecvAck \/ P_Flush \/ P_Sleep \/ P_Err \/ P_Out
  \/ E_Cancel \/ E_LinkDown \/ G_Emit
  \/ S_Start \/ S_SendInitAck \/ S_SlabStart \/ S_RecvCommit \/ S_RecvSize
  \/ S_RecvSlab \/ S_SendAck \/ S_Load \/ S_LoadFail

Spec == Init /\ [][Next]_vars

\* The same two loops with checkpoints of 4 GiB and more, at the default
\* checkpoint frequency, with no cancellation and no failure of the link or
\* of the load.
InitBig ==
  /\ mc = NoRing
  /\ rput = <<>> /\ rgot = <<>> /\ rreq = 0 /\ rret = 0
  /\ rphase = "idle" /\ rshrunk = 0
  /\ freq_ms = MC_DEFAULT_CHECKPOINT_FREQ_MS
  /\ max_strikes = CALC_MAX_STRIKES(MC_DEFAULT_SLAB_MAX_CHECK_DELAY_SECS, freq_ms)
  /\ ppc = "idle" /\ mstate = "ACTIVE" /\ pmc = NoRing /\ mc_staging = FALSE
  /\ vm_running = TRUE /\ tick = 0 /\ bytes_xfer = 0
  /\ to_save = 0 /\ save_val = 0 /\ pslab = 0 /\ pret = 0
  /\ p2s = <<>> /\ s2p = <<>> /\ link = "up"
  /\ spc = "idle" /\ smc = NoRing /\ checkpoint_size = 0 /\ received = 0
  /\ sslab = 0
  /\ buffering_enabled = 0 /\ qplugged = FALSE /\ qqueue = <<>>
  /\ released = {}
  /\ hist = Hist0
  /\ transit_bitmap = [b \in RdmaBlocks |-> {}]
  /\ nb_sent = 0 /\ lc_nb_sent = [lc \in RdmaContexts |-> 0]
  /\ chunk_cur = [lc \in RdmaContexts |-> NoChunk]
  /\ sendq = [lc \in RdmaContexts |-> <<>>]
  /\ wpc = WIdle /\ error_state = 0
  /\ posted_recv = [p \in Peers |-> <<RDMA_WRID_READY>>]
  /\ recv_cq = [p \in Peers |-> <<>>]
  /\ control_ready_expected = [p \in Peers |-> IF p = "src" THEN 1 ELSE 0]
  /\ cpc = [p \in Peers |-> "idle"] /\ peer_error = [p \in Peers |-> 0]
  /\ creq = "NONE" /\ chist = CHist0
  /\ blockmap = Registry0.map /\ local_ram_blocks = Registry0.local
  /\ entry = Entry0 /\ work_posted = 0
  /\ migration_started = FALSE /\ keepalive = 0 /\ last_keepalive = 0
  /\ nb_missed_keepalive = 0 /\ keepalive_startup = FALSE
  /\ qp_state = "IBV_QPS_RTS" /\ connection_timer = 0
  /\ keepalive_timer = FALSE /\ hka = [run |-> 0, checks |-> 0]
  /\ remote_keys = [c \in RegChunks |-> 0]
  /\ pmr = [p \in Peers |-> {}]
  /\ unregistrations = [i \in 0..(RDMA_SEND_MAX - 1) |-> NoWrid]
  /\ unregister_current = 0 /\ unregister_next = 0
  /\ unregister_bitmap = {}
  /\ reg_wire = NoMsg /\ reg_resp = NoMsg /\ dblock = "unset"
  /\ reg_hist = RHist0 /\ reg_pc = RIdle
  /\ m_cc = NoChunk /\ m_start = 0 /\ m_saved = 0 /\ m_flushes = 0
  /\ m_pc = "saving"
  /\ shk = Shk0
  /\ nics = <<"tap">> /\ nic_ctl = NicCtl0 /\ nic_hist = NicHist0
  /\ capneg = CapNeg0
  /\ sync = Sync0

NextBig ==
  \/ P_Start \/ P_RecvInitAck \/ P_TickPause
  \/ P_StartBuffer \/ P_SaveBegin(HugeSizes, DataVals) \/ P_SavePut
  \/ P_SaveComplete \/ P_SaveFail
  \/ P_Resume \/ P_SendCommit \/ P_SendSize \/ P_SendSlab \/ P_SendDone
  \/ P_RecvAck \/ P_Flush \/ P_Sleep \/ P_Out
  \/ S_Start \/ S_SendInitAck \/ S_SlabStart \/ S_RecvCommit \/ S_RecvSize
  \/ S_RecvSlab \/ S_SendAck \/ S_Load

SpecBig == InitBig /\ [][NextBig]_vars

\* ------------------------------------------- RDMA write engine: actions
\* The part of the engine's state a completion changes.  A queue pair
\* completes its work requests in the order they were posted, so what
\* ibv_poll_cq can hand over next is the oldest work request still posted.
RS ==
  [bm |-> transit_bitmap, nb |-> nb_sent, lcnb |-> lc_nb_sent, sq |-> sendq]

SetRS(st) ==
  /\ transit_bitmap' = st.bm
  /\ nb_sent' = st.nb
  /\ lc_nb_sent' = st.lcnb
  /\ sendq' = st.sq

\* What one ibv_poll_cq finds: nothing completed yet, or the oldest work
\* request completed with success or with an error status.
PollOutcomes == {"NONE", "IBV_WC_SUCCESS", "IBV_WC_ERROR"}

\* qemu_rdma_poll: one ibv_poll_cq.  A completion with an error status
\* returns -1 before anything is recorded; a WRITE completion clears the
\* chunk's transit bit and counts the write off.
qemu_rdma_poll(st, lc, found) ==
  IF st.sq[lc] = <<>> \/ found = "NONE"
  THEN [st |-> st, ret |-> 0, wr_id |-> RDMA_WRID_NONE]
  ELSE LET wc == [wr_id |-> Head(st.sq[lc]), status |-> found]
           st1 == [st EXCEPT !.sq[lc] = Tail(@)]
       IN IF wc.status # "IBV_WC_SUCCESS"
          THEN [st |-> st1, ret |-> 0 - 1, wr_id |-> RDMA_WRID_NONE]
          ELSE IF wc.wr_id.type = RDMA_WRID_RDMA_WRITE_REMOTE
          THEN [st |-> [st1 EXCEPT
                          !.bm[wc.wr_id.block] = clear_bit(wc.wr_id.chunk, @),
                          !.nb = IF @ > 0 THEN @ - 1 ELSE @,
                          !.lcnb[lc] = IF @ > 0 THEN @ - 1 ELSE @],
                ret |-> 0, wr_id |-> wc.wr_id.type]
          ELSE [st |-> st1, ret |-> 0, wr_id |-> wc.wr_id.type]

\* qemu_rdma_poll_until_empty: poll, without blocking, until nothing is
\* left; n work requests have completed with success by now, and the one
\* after them has completed in error or not at all (last).
RECURSIVE qemu_rdma_poll_until_empty(_, _, _, _)
qemu_rdma_poll_until_empty(st, lc, n, last) ==
  LET r == qemu_rdma_poll(st, lc, IF n > 0 THEN "IBV_WC_SUCCESS" ELSE last)
  IN IF r.ret < 0 THEN [st |-> r.st, ret |-> r.ret]
     ELSE IF r.wr_id = RDMA_WRID_NONE THEN [st |-> r.st, ret |-> 0]
     ELSE qemu_rdma_poll_until_empty(r.st, lc, n - 1, last)

qemu_rdma_search_ram_block(addr) ==
  IF addr < BlockOffset(1) THEN 0 ELSE 1

qemu_rdma_buffer_mergable(cc, addr, len) ==
  /\ cc.current_block_idx >= 0
  /\ cc.current_chunk >= 0
  /\ cc.current_length # 0
  /\ addr = cc.current_addr + cc.current_length
  /\ addr >= BlockOffset(cc.current_block_idx)
  /\ addr + len <= BlockOffset(cc.current_block_idx)
                      + BlockPages(cc.current_block_idx)
  /\ (addr - BlockOffset(cc.current_block_idx)) + len
        <= ram_chunk_end(cc.current_block_idx, cc.current_chunk)

write_start(cc, len, addr) ==
  [cc EXCEPT !.current_addr = addr,
             !.current_block_idx = qemu_rdma_search_ram_block(addr),
             !.current_chunk =
                ram_chunk_index(addr - BlockOffset(qemu_rdma_search_ram_block(addr)))]

\* install_boundaries: the chunk the buffered write starts in.
install_boundaries(cc) ==
  ram_chunk_index(cc.current_addr - BlockOffset(cc.current_block_idx))

\* ibv_post_send answers ENOMEM when the send queue has no free slot; a
\* slot is free again once its completion has been polled.
SendQueueFull(lc) == Len(sendq[lc]) >= SendDepth

\* The end of qemu_rdma_save_page and qemu_rdma_copy_page:
\* qemu_rdma_poll_until_empty on the context, SET_ERROR on failure.
PageDone(st, lc) ==
  \E n \in 0..Len(st.sq[lc]), last \in {"NONE", "IBV_WC_ERROR"} :
     LET r == qemu_rdma_poll_until_empty(st, lc, n, last)
     IN /\ SetRS(r.st)
        /\ error_state' = IF r.ret < 0 THEN r.ret ELSE error_state
        /\ wpc' = WIdle

\* qemu_rdma_save_page (lc_remote) and qemu_rdma_copy_page (lc_src) for one
\* page at addr: qemu_rdma_flush_unmergable merges the page into the current
\* buffer, or writes the buffer out first.
W_Page ==
  /\ wpc.pc = "idle" /\ error_state = 0
  /\ \E lc \in RdmaContexts, addr \in RdmaPages :
       LET cc == chunk_cur[lc]
       IN IF qemu_rdma_buffer_mergable(cc, addr, 1)
          THEN /\ chunk_cur' = [chunk_cur EXCEPT ![lc].current_length = @ + 1]
               /\ IF cc.current_length + 1 >= RDMA_MERGE_MAX
                  THEN /\ wpc' = [pc |-> "write", lc |-> lc, req |-> NoReq,
                                  drain |-> FALSE]
                       /\ UNCHANGED <<transit_bitmap, nb_sent, lc_nb_sent,
                                      sendq, error_state>>
                  ELSE PageDone(RS, lc)
          ELSE IF cc.current_length = 0
          THEN /\ chunk_cur' = [chunk_cur EXCEPT ![lc] =
                    [write_start(cc, 1, addr) EXCEPT !.current_length = 1]]
               /\ PageDone(RS, lc)
          ELSE /\ wpc' = [pc |-> "write", lc |-> lc, req |-> [addr |-> addr],
                          drain |-> FALSE]
               /\ UNCHANGED <<chunk_cur, transit_bitmap, nb_sent, lc_nb_sent,
                              sendq, error_state>>
  /\ UNCHANGED <<ringvars, cfgvars, mcvars, transportvars>>

\* qemu_rdma_put_buffer: push out the writes queued up for RAM.
W_PutBuffer ==
  /\ wpc.pc = "idle" /\ error_state = 0
  /\ chunk_cur["lc_remote"].current_length # 0
  /\ wpc' = [pc |-> "write", lc |-> "lc_remote", req |-> NoReq,
             drain |-> FALSE]
  /\ UNCHANGED <<transit_bitmap, nb_sent, lc_nb_sent, chunk_cur, sendq,
                 error_state, ringvars, cfgvars, mcvars, transportvars>>

\* qemu_rdma_drain_cq: write the buffer out, then wait until the context
\* has no write outstanding.
W_DrainCq ==
  /\ wpc.pc = "idle" /\ error_state = 0
  /\ \E lc \in RdmaContexts :
       wpc' = [pc |-> IF chunk_cur[lc].current_length # 0
                      THEN "write" ELSE "drain",
               lc |-> lc, req |-> NoReq, drain |-> TRUE]
  /\ UNCHANGED <<transit_bitmap, nb_sent, lc_nb_sent, chunk_cur, sendq,
                 error_state, ringvars, cfgvars, mcvars, transportvars>>

\* while (lc->nb_sent) qemu_rdma_block_for_wrid(...)
W_DrainStep ==
  /\ wpc.pc = "drain"
  /\ IF lc_nb_sent[wpc.lc] = 0
     THEN /\ wpc' = WIdle
          /\ UNCHANGED <<transit_bitmap, nb_sent, lc_nb_sent, sendq,
                         error_state>>
     ELSE /\ sendq[wpc.lc] # <<>>
          /\ \E found \in PollOutcomes \ {"NONE"} :
               LET r == qemu_rdma_poll(RS, wpc.lc, found)
               IN /\ SetRS(r.st)
                  /\ IF r.ret < 0
                     THEN error_state' = 0 - EIO /\ wpc' = WIdle
                     ELSE UNCHANGED <<error_state, wpc>>
  /\ UNCHANGED <<chunk_cur, ringvars, cfgvars, mcvars, transportvars>>

\* qemu_rdma_write waiting: the chunk's transit bit is set, or the send
\* queue was full; qemu_rdma_block_for_wrid returns with the next
\* completion of the context.
W_WriteWait ==
  /\ wpc.pc = "write"
  /\ LET lc == wpc.lc
         cc == chunk_cur[lc]
     IN /\ \/ test_bit(install_boundaries(cc),
                       transit_bitmap[cc.current_block_idx])
           \/ SendQueueFull(lc)
        /\ sendq[lc] # <<>>
        /\ \E found \in PollOutcomes \ {"NONE"} :
             LET r == qemu_rdma_poll(RS, lc, found)
             IN /\ SetRS(r.st)
                /\ IF r.ret < 0
                   THEN error_state' = r.ret /\ wpc' = WIdle
                   ELSE UNCHANGED <<error_state, wpc>>
  /\ UNCHANGED <<chunk_cur, ringvars, cfgvars, mcvars, transportvars>>

\* qemu_rdma_write posting: ibv_post_send, set_bit, the counters; then the
\* caller goes on (write_start and merge of the page that did not fit, the
\* final poll).
W_WritePost ==
  /\ wpc.pc = "write"
  /\ LET lc == wpc.lc
         cc == chunk_cur[lc]
         chunk_idx == install_boundaries(cc)
         posted == [RS EXCEPT
                      !.sq[lc] = Append(@,
                          qemu_rdma_make_wrid(RDMA_WRID_RDMA_WRITE_REMOTE,
                                              cc.current_block_idx, chunk_idx)),
                      !.bm[cc.current_block_idx] = set_bit(chunk_idx, @),
                      !.nb = @ + 1,
                      !.lcnb[lc] = @ + 1]
         flushed == [cc EXCEPT !.current_length = 0, !.current_addr = 0]
     IN /\ ~test_bit(chunk_idx, transit_bitmap[cc.current_block_idx])
        /\ ~SendQueueFull(lc)
        /\ IF wpc.req # NoReq
           THEN /\ chunk_cur' = [chunk_cur EXCEPT ![lc] =
                      [write_start(flushed, 1, wpc.req.addr)
                         EXCEPT !.current_length = 1]]
                /\ PageDone(posted, lc)
           ELSE /\ chunk_cur' = [chunk_cur EXCEPT ![lc] = flushed]
                /\ SetRS(posted)
                /\ error_state' = error_state
                /\ wpc' = IF wpc.drain THEN [wpc EXCEPT !.pc = "drain"]
                          ELSE WIdle
  /\ UNCHANGED <<ringvars, cfgvars, mcvars, transportvars>>

InitRdma ==
  /\ mc = NoRing
  /\ rput = <<>> /\ rgot = <<>> /\ rreq = 0 /\ rret = 0
  /\ rphase = "idle" /\ rshrunk = 0
  /\ freq_ms = MC_DEFAULT_CHECKPOINT_FREQ_MS
  /\ max_strikes = CALC_MAX_STRIKES(MC_DEFAULT_SLAB_MAX_CHECK_DELAY_SECS, freq_ms)
  /\ ppc = "idle" /\ mstate = "ACTIVE" /\ pmc = NoRing /\ mc_staging = FALSE
  /\ vm_running = TRUE /\ tick = 0 /\ bytes_xfer = 0
  /\ to_save = 0 /\ save_val = 0 /\ pslab = 0 /\ pret = 0
  /\ p2s = <<>> /\ s2p = <<>> /\ link = "up"
  /\ spc = "idle" /\ smc = NoRing /\ checkpoint_size = 0 /\ received = 0
  /\ sslab = 0
  /\ buffering_enabled = 0 /\ qplugged = FALSE /\ qqueue = <<>>
  /\ released = {}
  /\ hist = Hist0
  /\ transit_bitmap = [b \in RdmaBlocks |-> {}]
  /\ nb_sent = 0 /\ lc_nb_sent = [lc \in RdmaContexts |-> 0]
  /\ chunk_cur = [lc \in RdmaContexts |-> NoChunk]
  /\ sendq = [lc \in RdmaContexts |-> <<>>]
  /\ wpc = WIdle /\ error_state = 0
  /\ posted_recv = [p \in Peers |-> <<RDMA_WRID_READY>>]
  /\ recv_cq = [p \in Peers |-> <<>>]
  /\ control_ready_expected = [p \in Peers |-> IF p = "src" THEN 1 ELSE 0]
  /\ cpc = [p \in Peers |-> "idle"] /\ peer_error = [p \in Peers |-> 0]
  /\ creq = "NONE" /\ chist = CHist0
  /\ blockmap = Registry0.map /\ local_ram_blocks = Registry0.local
  /\ entry = Entry0 /\ work_posted = 0
  /\ migration_started = FALSE /\ keepalive = 0 /\ last_keepalive = 0
  /\ nb_missed_keepalive = 0 /\ keepalive_startup = FALSE
  /\ qp_state = "IBV_QPS_RTS" /\ connection_timer = 0
  /\ keepalive_timer = FALSE /\ hka = [run |-> 0, checks |-> 0]
  /\ remote_keys = [c \in RegChunks |-> 0]
  /\ pmr = [p \in Peers |-> {}]
  /\ unregistrations = [i \in 0..(RDMA_SEND_MAX - 1) |-> NoWrid]
  /\ unregister_current = 0 /\ unregister_next = 0
  /\ unregister_bitmap = {}
  /\ reg_wire = NoMsg /\ reg_resp = NoMsg /\ dblock = "unset"
  /\ reg_hist = RHist0 /\ reg_pc = RIdle
  /\ m_cc = NoChunk /\ m_start = 0 /\ m_saved = 0 /\ m_flushes = 0
  /\ m_pc = "saving"
  /\ shk = Shk0
  /\ nics = <<"tap">> /\ nic_ctl = NicCtl0 /\ nic_hist = NicHist0
  /\ capneg = CapNeg0
  /\ sync = Sync0

NextRdma ==
  \/ W_Page \/ W_PutBuffer \/ W_DrainCq \/ W_DrainStep
  \/ W_WriteWait \/ W_WritePost

SpecRdma == InitRdma /\ [][NextRdma]_vars

\* ------------------------------------------------------- control channel
\* The requests the source sends in this model: COMPRESS expects no
\* response, REGISTER_REQUEST expects REGISTER_RESULT.
RequestTypes == {"COMPRESS", "REGISTER_REQUEST"}
ResponseOf(t) == IF t = "REGISTER_REQUEST" THEN "REGISTER_RESULT" ELSE "NONE"

\* The part of the channel's state a SEND or a poll changes.
CS == [rq |-> posted_recv, cq |-> recv_cq, cre |-> control_ready_expected,
       h |-> chist, ret |-> 0, wc |-> [idx |-> 0 - 1, type |-> "NONE"]]

SetCS(st) ==
  /\ posted_recv' = st.rq
  /\ recv_cq' = st.cq
  /\ control_ready_expected' = st.cre
  /\ chist' = st.h

\* qemu_rdma_post_send_control: ibv_post_send of one SEND, then wait until
\* it has completed.  The SEND consumes the oldest RECV posted on the peer's
\* queue pair; with none posted (the connection asks for no RNR retry) or
\* with the peer disconnected, the SEND completes in error.
qemu_rdma_post_send_control(st, p, type) ==
  LET o == Other(p)
  IN IF cpc[o] = "closed" THEN [st EXCEPT !.ret = 0 - 1]
     ELSE IF st.rq[o] = <<>>
     THEN [st EXCEPT !.h.unposted = @ \cup {type}, !.ret = 0 - 1]
     ELSE [st EXCEPT !.rq[o] = Tail(@),
                     !.cq[o] = Append(@, [idx |-> Head(st.rq[o]),
                                          type |-> type])]

\* qemu_rdma_post_recv_control: ibv_post_recv for control buffer idx.
qemu_rdma_post_recv_control(st, p, idx) ==
  [st EXCEPT !.rq[p] = Append(@, idx)]

\* qemu_rdma_poll of a RECV completion on lc_remote: a completion of a
\* control RECV clears control_ready_expected when it is set.
poll_recv(st, p) ==
  LET wc == Head(st.cq[p])
  IN [st EXCEPT !.cq[p] = Tail(@),
                !.cre[p] = 0,
                !.h.readys_polled =
                    IF p = "src" /\ wc.type = "READY" THEN @ + 1 ELSE @,
                !.wc = wc]

\* qemu_rdma_exchange_get_response once the completion for idx is polled.
qemu_rdma_exchange_get_response(wc, expecting) ==
  IF expecting = "NONE" THEN 0
  ELSE IF wc.type # expecting \/ wc.type = "ERROR" THEN 0 - EIO
  ELSE 0

\* qemu_rdma_exchange_send, from a public entry point of the source.
X_ExchangeSend ==
  /\ cpc["src"] = "idle" /\ peer_error["src"] = 0
  /\ chist.requests < MaxExchanges
  /\ \E t \in RequestTypes : creq' = t
  /\ cpc' = [cpc EXCEPT !["src"] = IF control_ready_expected["src"] # 0
                                   THEN "get_ready" ELSE "post_recv"]
  /\ UNCHANGED <<posted_recv, recv_cq, control_ready_expected, peer_error,
                 chist, notctl>>

\* ... waits for the READY: completions of other work requests are passed
\* over, a message other than READY is an error.
X_GetReady ==
  /\ cpc["src"] = "get_ready" /\ recv_cq["src"] # <<>>
  /\ LET st == poll_recv(CS, "src")
         ret == qemu_rdma_exchange_get_response(st.wc, "READY")
     IN /\ SetCS(st)
        /\ IF st.wc.idx # RDMA_WRID_READY
           THEN UNCHANGED <<cpc, peer_error>>
           ELSE IF ret < 0
           THEN /\ peer_error' = [peer_error EXCEPT !["src"] = ret]
                /\ cpc' = [cpc EXCEPT !["src"] = "idle"]
           ELSE /\ cpc' = [cpc EXCEPT !["src"] = "post_recv"]
                /\ UNCHANGED peer_error
  /\ UNCHANGED <<creq, notctl>>

\* ... posts the RECV for the response, if one is expected, and the RECV
\* that replaces the one the READY consumed.
X_PostRecv ==
  /\ cpc["src"] = "post_recv"
  /\ LET st1 == IF ResponseOf(creq) # "NONE"
                THEN qemu_rdma_post_recv_control(CS, "src", RDMA_WRID_DATA)
                ELSE CS
     IN SetCS(qemu_rdma_post_recv_control(st1, "src", RDMA_WRID_READY))
  /\ cpc' = [cpc EXCEPT !["src"] = "post_send"]
  /\ UNCHANGED <<peer_error, creq, notctl>>

\* ... sends the request; without a response to wait for, the exchange is
\* over and the next one expects a READY.
X_PostSend ==
  /\ cpc["src"] = "post_send"
  /\ LET st0 == [CS EXCEPT !.h.requests = @ + 1]
         st == qemu_rdma_post_send_control(st0, "src", creq)
     IN IF st.ret < 0
        THEN /\ SetCS(st)
             /\ peer_error' = [peer_error EXCEPT !["src"] = st.ret]
             /\ cpc' = [cpc EXCEPT !["src"] = "idle"]
        ELSE IF ResponseOf(creq) # "NONE"
        THEN /\ SetCS(st)
             /\ cpc' = [cpc EXCEPT !["src"] = "get_resp"]
             /\ UNCHANGED peer_error
        ELSE /\ SetCS([st EXCEPT !.cre["src"] = 1])
             /\ cpc' = [cpc EXCEPT !["src"] = "idle"]
             /\ UNCHANGED peer_error
  /\ UNCHANGED <<creq, notctl>>

\* ... waits for the response.
X_GetResp ==
  /\ cpc["src"] = "get_resp" /\ recv_cq["src"] # <<>>
  /\ LET st == poll_recv(CS, "src")
         ret == qemu_rdma_exchange_get_response(st.wc, ResponseOf(creq))
     IN IF st.wc.idx # RDMA_WRID_DATA
        THEN SetCS(st) /\ UNCHANGED <<cpc, peer_error>>
        ELSE IF ret < 0
        THEN /\ SetCS(st)
             /\ peer_error' = [peer_error EXCEPT !["src"] = ret]
             /\ cpc' = [cpc EXCEPT !["src"] = "idle"]
        ELSE /\ SetCS([st EXCEPT !.cre["src"] = 1])
             /\ cpc' = [cpc EXCEPT !["src"] = "idle"]
             /\ UNCHANGED peer_error
  /\ UNCHANGED <<creq, notctl>>

\* The source between two exchanges, waiting for RDMA writes to complete
\* (qemu_rdma_block_for_wrid for RDMA_WRID_RDMA_WRITE_REMOTE): a completion
\* of a control RECV found on the way is passed over.
X_PollWrite ==
  /\ cpc["src"] = "idle" /\ peer_error["src"] = 0
  /\ recv_cq["src"] # <<>>
  /\ SetCS(poll_recv(CS, "src"))
  /\ UNCHANGED <<cpc, peer_error, creq, notctl>>

\* qemu_rdma_exchange_recv, from qemu_rdma_registration_handle on the
\* destination: tell the source that we are ready for a message.
X_ExchangeRecv ==
  /\ cpc["dst"] = "idle" /\ peer_error["dst"] = 0
  /\ chist.readys_sent <= MaxExchanges
  /\ LET st0 == [CS EXCEPT !.h.readys_sent = @ + 1]
         st == qemu_rdma_post_send_control(st0, "dst", "READY")
     IN /\ SetCS(st)
        /\ IF st.ret < 0
           THEN /\ peer_error' = [peer_error EXCEPT !["dst"] = st.ret]
                /\ UNCHANGED cpc
           ELSE /\ cpc' = [cpc EXCEPT !["dst"] = "get_req"]
                /\ UNCHANGED peer_error
  /\ UNCHANGED <<creq, notctl>>

\* ... blocks until the message has arrived (RDMA_CONTROL_NONE: any type;
\* the handler then refuses what is not a request).
X_GetReq ==
  /\ cpc["dst"] = "get_req" /\ recv_cq["dst"] # <<>>
  /\ LET st == poll_recv(CS, "dst")
     IN /\ SetCS(st)
        /\ cpc' = [cpc EXCEPT !["dst"] =
                     IF st.wc.type \in RequestTypes
                     THEN IF ResponseOf(st.wc.type) # "NONE"
                          THEN "repost_respond" ELSE "repost"
                     ELSE "repost_refuse"]
  /\ UNCHANGED <<peer_error, creq, notctl>>

\* ... posts a new RECV to replace the one the message consumed; the
\* handler acts on the message.
X_RepostRecv ==
  /\ cpc["dst"] \in {"repost", "repost_respond", "repost_refuse"}
  /\ SetCS(qemu_rdma_post_recv_control(CS, "dst", RDMA_WRID_READY))
  /\ cpc' = [cpc EXCEPT !["dst"] =
               IF cpc["dst"] = "repost_respond" THEN "respond" ELSE "idle"]
  /\ peer_error' = [peer_error EXCEPT !["dst"] =
               IF cpc["dst"] = "repost_refuse" THEN 0 - EIO ELSE @]
  /\ UNCHANGED <<creq, notctl>>

\* qemu_rdma_registration_handle answers a REGISTER_REQUEST.
X_Respond ==
  /\ cpc["dst"] = "respond" /\ peer_error["dst"] = 0
  /\ LET st == qemu_rdma_post_send_control(CS, "dst",
                                           ResponseOf("REGISTER_REQUEST"))
     IN /\ SetCS(st)
        /\ peer_error' = [peer_error EXCEPT !["dst"] =
                            IF st.ret < 0 THEN st.ret ELSE @]
  /\ cpc' = [cpc EXCEPT !["dst"] = "idle"]
  /\ UNCHANGED <<creq, notctl>>

\* A verbs call or a completion fails under a peer, or its keepalive
\* watcher gives the connection up: the entry point records the error
\* (SET_ERROR) and returns.
X_Fail ==
  /\ \E p \in Peers, err \in {0 - EIO, 0 - ENETUNREACH} :
       /\ cpc[p] # "closed" /\ peer_error[p] = 0
       /\ peer_error' = [peer_error EXCEPT ![p] = err]
       /\ cpc' = [cpc EXCEPT ![p] = "idle"]
  /\ UNCHANGED <<posted_recv, recv_cq, control_ready_expected, creq, chist,
                 notctl>>

\* qemu_rdma_cleanup: with an error recorded, other than the one the
\* keepalive watcher records, tell the peer; then disconnect.
X_Cleanup ==
  /\ \E p \in Peers :
       /\ cpc[p] = "idle"
       /\ IF peer_error[p] # 0 /\ peer_error[p] # 0 - ENETUNREACH
          THEN LET st0 == [CS EXCEPT !.h.errors_sent = @ + 1]
               IN SetCS(qemu_rdma_post_send_control(st0, p, "ERROR"))
          ELSE UNCHANGED <<posted_recv, recv_cq, control_ready_expected,
                           chist>>
       /\ cpc' = [cpc EXCEPT ![p] = "closed"]
  /\ UNCHANGED <<peer_error, creq, notctl>>

InitCtl ==
  /\ mc = NoRing
  /\ rput = <<>> /\ rgot = <<>> /\ rreq = 0 /\ rret = 0
  /\ rphase = "idle" /\ rshrunk = 0
  /\ freq_ms = MC_DEFAULT_CHECKPOINT_FREQ_MS
  /\ max_strikes = CALC_MAX_STRIKES(MC_DEFAULT_SLAB_MAX_CHECK_DELAY_SECS, freq_ms)
  /\ ppc = "idle" /\ mstate = "ACTIVE" /\ pmc = NoRing /\ mc_staging = FALSE
  /\ vm_running = TRUE /\ tick = 0 /\ bytes_xfer = 0
  /\ to_save = 0 /\ save_val = 0 /\ pslab = 0 /\ pret = 0
  /\ p2s = <<>> /\ s2p = <<>> /\ link = "up"
  /\ spc = "idle" /\ smc = NoRing /\ checkpoint_size = 0 /\ received = 0
  /\ sslab = 0
  /\ buffering_enabled = 0 /\ qplugged = FALSE /\ qqueue = <<>>
  /\ released = {}
  /\ hist = Hist0
  /\ transit_bitmap = [b \in RdmaBlocks |-> {}]
  /\ nb_sent = 0 /\ lc_nb_sent = [lc \in RdmaContexts |-> 0]
  /\ chunk_cur = [lc \in RdmaContexts |-> NoChunk]
  /\ sendq = [lc \in RdmaContexts |-> <<>>]
  /\ wpc = WIdle /\ error_state = 0
  /\ posted_recv = [p \in Peers |-> <<RDMA_WRID_READY>>]
  /\ recv_cq = [p \in Peers |-> <<>>]
  /\ control_ready_expected = [p \in Peers |-> IF p = "src" THEN 1 ELSE 0]
  /\ cpc = [p \in Peers |-> "idle"] /\ peer_error = [p \in Peers |-> 0]
  /\ creq = "NONE" /\ chist = CHist0
  /\ blockmap = Registry0.map /\ local_ram_blocks = Registry0.local
  /\ entry = Entry0 /\ work_posted = 0
  /\ migration_started = FALSE /\ keepalive = 0 /\ last_keepalive = 0
  /\ nb_missed_keepalive = 0 /\ keepalive_startup = FALSE
  /\ qp_state = "IBV_QPS_RTS" /\ connection_timer = 0
  /\ keepalive_timer = FALSE /\ hka = [run |-> 0, checks |-> 0]
  /\ remote_keys = [c \in RegChunks |-> 0]
  /\ pmr = [p \in Peers |-> {}]
  /\ unregistrations = [i \in 0..(RDMA_SEND_MAX - 1) |-> NoWrid]
  /\ unregister_current = 0 /\ unregister_next = 0
  /\ unregister_bitmap = {}
  /\ reg_wire = NoMsg /\ reg_resp = NoMsg /\ dblock = "unset"
  /\ reg_hist = RHist0 /\ reg_pc = RIdle
  /\ m_cc = NoChunk /\ m_start = 0 /\ m_saved = 0 /\ m_flushes = 0
  /\ m_pc = "saving"
  /\ shk = Shk0
  /\ nics = <<"tap">> /\ nic_ctl = NicCtl0 /\ nic_hist = NicHist0
  /\ capneg = CapNeg0
  /\ sync = Sync0

NextCtl ==
  \/ X_ExchangeSend \/ X_GetReady \/ X_PostRecv \/ X_PostSend \/ X_GetResp
  \/ X_PollWrite \/ X_ExchangeRecv \/ X_GetReq \/ X_RepostRecv \/ X_Respond
  \/ X_Fail \/ X_Cleanup

SpecCtl == InitCtl /\ [][NextCtl]_vars

\* ------------------------------------------------- transport entry points
\* The QEMUFile operations of the transport that begin with
\* CHECK_ERROR_STATE().
CheckedEntryPoints ==
  {"put_buffer", "get_buffer", "save_page", "copy_page",
   "registration_start", "registration_stop", "registration_handle"}
\* Offsets of the RAM blocks a guest may have.
RamOffsets == 0..2

SET_ERROR(cur, err) == IF cur = 0 THEN err ELSE cur

\* One of the entry points that begin with CHECK_ERROR_STATE(): with an
\* error stored it returns it at once; otherwise it does its work, posting
\* work requests or control messages, and records the error if that fails.
N_Checked ==
  /\ entry.op # "cleanup" /\ entry.n < MaxCalls
  /\ \E op \in CheckedEntryPoints, ret \in {0, 0 - EIO} :
       IF error_state # 0
       THEN /\ entry' = [n |-> entry.n + 1, op |-> op, ret |-> error_state]
            /\ UNCHANGED <<work_posted, error_state>>
       ELSE /\ entry' = [n |-> entry.n + 1, op |-> op, ret |-> ret]
            /\ work_posted' = work_posted + 1
            /\ error_state' = IF ret < 0 THEN SET_ERROR(error_state, ret)
                              ELSE error_state
  /\ UNCHANGED <<blockmap, local_ram_blocks, transit_bitmap, nb_sent,
                 lc_nb_sent, chunk_cur,
                 sendq, wpc, notent>>

\* qemu_rdma_add_block: __qemu_rdma_add_block on the context.
N_AddBlock ==
  /\ entry.op # "cleanup" /\ entry.n < MaxCalls
  /\ \E block_offset \in RamOffsets \ DOMAIN blockmap :
       LET reg == qemu_rdma_add_block_(
                    [local |-> local_ram_blocks, map |-> blockmap],
                    block_offset)
       IN blockmap' = reg.map /\ local_ram_blocks' = reg.local
  /\ entry' = [n |-> entry.n + 1, op |-> "add", ret |-> 0]
  /\ UNCHANGED <<work_posted, rdmavars, notent>>

\* qemu_rdma_delete_block: __qemu_rdma_delete_block on the context.
N_DeleteBlock ==
  /\ entry.op # "cleanup" /\ entry.n < MaxCalls
  /\ \E block_offset \in DOMAIN blockmap :
       LET reg == qemu_rdma_delete_block_(
                    [local |-> local_ram_blocks, map |-> blockmap],
                    block_offset)
       IN blockmap' = reg.map /\ local_ram_blocks' = reg.local
  /\ entry' = [n |-> entry.n + 1, op |-> "remove", ret |-> 0]
  /\ UNCHANGED <<work_posted, rdmavars, notent>>

\* The keepalive watcher or a completion handler records an error between
\* two calls.
N_SetError ==
  /\ entry.op # "cleanup" /\ error_state = 0
  /\ \E err \in {0 - EIO, 0 - ENETUNREACH} :
       error_state' = SET_ERROR(error_state, err)
  /\ UNCHANGED <<blockmap, local_ram_blocks, entry, work_posted,
                 transit_bitmap, nb_sent,
                 lc_nb_sent, chunk_cur, sendq, wpc, notent>>

\* qemu_rdma_close: qemu_rdma_cleanup deletes every block.
N_Cleanup ==
  /\ entry.op # "cleanup"
  /\ entry' = [entry EXCEPT !.op = "cleanup"]
  /\ LET reg == delete_all_blocks(
                  [local |-> local_ram_blocks, map |-> blockmap])
     IN blockmap' = reg.map /\ local_ram_blocks' = reg.local
  /\ UNCHANGED <<work_posted, rdmavars, notent>>

InitEntry ==
  /\ mc = NoRing
  /\ rput = <<>> /\ rgot = <<>> /\ rreq = 0 /\ rret = 0
  /\ rphase = "idle" /\ rshrunk = 0
  /\ freq_ms = MC_DEFAULT_CHECKPOINT_FREQ_MS
  /\ max_strikes = CALC_MAX_STRIKES(MC_DEFAULT_SLAB_MAX_CHECK_DELAY_SECS, freq_ms)
  /\ ppc = "idle" /\ mstate = "ACTIVE" /\ pmc = NoRing /\ mc_staging = FALSE
  /\ vm_running = TRUE /\ tick = 0 /\ bytes_xfer = 0
  /\ to_save = 0 /\ save_val = 0 /\ pslab = 0 /\ pret = 0
  /\ p2s = <<>> /\ s2p = <<>> /\ link = "up"
  /\ spc = "idle" /\ smc = NoRing /\ checkpoint_size = 0 /\ received = 0
  /\ sslab = 0
  /\ buffering_enabled = 0 /\ qplugged = FALSE /\ qqueue = <<>>
  /\ released = {}
  /\ hist = Hist0
  /\ transit_bitmap = [b \in RdmaBlocks |-> {}]
  /\ nb_sent = 0 /\ lc_nb_sent = [lc \in RdmaContexts |-> 0]
  /\ chunk_cur = [lc \in RdmaContexts |-> NoChunk]
  /\ sendq = [lc \in RdmaContexts |-> <<>>]
  /\ wpc = WIdle /\ error_state = 0
  /\ posted_recv = [p \in Peers |-> <<RDMA_WRID_READY>>]
  /\ recv_cq = [p \in Peers |-> <<>>]
  /\ control_ready_expected = [p \in Peers |-> IF p = "src" THEN 1 ELSE 0]
  /\ cpc = [p \in Peers |-> "idle"] /\ peer_error = [p \in Peers |-> 0]
  /\ creq = "NONE" /\ chist = CHist0
  /\ \E offsets \in {<<0>>, <<0, 1>>} :
       /\ blockmap = qemu_rdma_init_ram_blocks(offsets).map
       /\ local_ram_blocks = qemu_rdma_init_ram_blocks(offsets).local
  /\ entry = Entry0 /\ work_posted = 0
  /\ migration_started = FALSE /\ keepalive = 0 /\ last_keepalive = 0
  /\ nb_missed_keepalive = 0 /\ keepalive_startup = FALSE
  /\ qp_state = "IBV_QPS_RTS" /\ connection_timer = 0
  /\ keepalive_timer = FALSE /\ hka = [run |-> 0, checks |-> 0]
  /\ remote_keys = [c \in RegChunks |-> 0]
  /\ pmr = [p \in Peers |-> {}]
  /\ unregistrations = [i \in 0..(RDMA_SEND_MAX - 1) |-> NoWrid]
  /\ unregister_current = 0 /\ unregister_next = 0
  /\ unregister_bitmap = {}
  /\ reg_wire = NoMsg /\ reg_resp = NoMsg /\ dblock = "unset"
  /\ reg_hist = RHist0 /\ reg_pc = RIdle
  /\ m_cc = NoChunk /\ m_start = 0 /\ m_saved = 0 /\ m_flushes = 0
  /\ m_pc = "saving"
  /\ shk = Shk0
  /\ nics = <<"tap">> /\ nic_ctl = NicCtl0 /\ nic_hist = NicHist0
  /\ capneg = CapNeg0
  /\ sync = Sync0

NextEntry ==
  N_Checked \/ N_AddBlock \/ N_DeleteBlock \/ N_SetError \/ N_Cleanup

SpecEntry == InitEntry /\ [][NextEntry]_vars

\* ---------------------------------------------------------------- keepalive
\* The test check_qp_state makes once keepalive_startup is set.
keepalive_lost_early(nb_missed) == nb_missed >= RDMA_MAX_LOST_KEEPALIVE
keepalive_lost(nb_missed) == nb_missed > RDMA_MAX_LOST_KEEPALIVE

\* qemu_rdma_keepalive_start, then migration_started = 1.
K_Start ==
  /\ ~migration_started /\ connection_timer = 0 /\ ~keepalive_timer
  /\ migration_started' = TRUE
  /\ connection_timer' = RDMA_CONNECTION_INTERVAL_MS
  /\ keepalive_timer' = TRUE
  /\ UNCHANGED <<keepalive, last_keepalive, nb_missed_keepalive,
                 keepalive_startup, qp_state, hka, rdmavars, notka>>

\* The peer's send_keepalive: its RDMA WRITE lands in our keepalive slot
\* with the next value of its counter.  The watcher only tests whether the
\* slot differs from what it read last, so the slot is kept as: the value
\* read last (0) or a later one (1).
K_PeerKeepalive ==
  /\ migration_started /\ qp_state = "IBV_QPS_RTS"
  /\ keepalive = last_keepalive
  /\ keepalive' = 1 - keepalive
  /\ UNCHANGED <<migration_started, last_keepalive, nb_missed_keepalive,
                 keepalive_startup, qp_state, connection_timer,
                 keepalive_timer, hka, rdmavars, notka>>

\* send_keepalive: post the RDMA WRITE of our counter; ENOMEM is retried
\* after a sleep, any other failure is recorded and ends the sender.
K_SendKeepalive ==
  /\ keepalive_timer /\ migration_started
  /\ \E ret \in {0, EIO} :
       IF ret > 0
       THEN /\ error_state' = SET_ERROR(error_state, 0 - ret)
            /\ keepalive_timer' = FALSE
       ELSE UNCHANGED <<error_state, keepalive_timer>>
  /\ UNCHANGED <<migration_started, keepalive, last_keepalive,
                 nb_missed_keepalive, keepalive_startup, qp_state,
                 connection_timer, hka, transit_bitmap, nb_sent, lc_nb_sent,
                 chunk_cur, sendq, wpc, notka>>

\* check_qp_state, when connection_timer expires.
K_Check ==
  /\ connection_timer # 0 /\ migration_started
  /\ LET miss == last_keepalive = keepalive
         nb == IF miss THEN nb_missed_keepalive + 1 ELSE 0
         first_missed == IF miss /\ nb = 1
                         THEN RDMA_KEEPALIVE_FIRST_MISSED_OFFSET ELSE 0
         startup == IF miss THEN keepalive_startup ELSE TRUE
     IN /\ nb_missed_keepalive' = nb
        /\ last_keepalive' = keepalive
        /\ hka' = [run |-> IF miss THEN hka.run + 1 ELSE 0,
                   checks |-> 1 - hka.checks]
        /\ IF startup
           THEN /\ keepalive_startup' = startup
                /\ IF keepalive_lost(nb)
                   THEN /\ error_state' = SET_ERROR(error_state,
                                                    0 - ENETUNREACH)
                        /\ qp_state' = "IBV_QPS_ERR"
                        /\ connection_timer' = 0
                   ELSE /\ connection_timer' =
                               RDMA_KEEPALIVE_INTERVAL_MS + first_missed
                        /\ UNCHANGED <<error_state, qp_state>>
           ELSE /\ keepalive_startup' =
                      ~(nb < RDMA_MAX_STARTUP_MISSED_KEEPALIVE)
                /\ connection_timer' =
                      RDMA_KEEPALIVE_INTERVAL_MS + first_missed
                /\ UNCHANGED <<error_state, qp_state>>
  /\ UNCHANGED <<migration_started, keepalive, keepalive_timer,
                 transit_bitmap, nb_sent, lc_nb_sent, chunk_cur, sendq, wpc,
                 notka>>

InitKeepalive ==
  /\ mc = NoRing
  /\ rput = <<>> /\ rgot = <<>> /\ rreq = 0 /\ rret = 0
  /\ rphase = "idle" /\ rshrunk = 0
  /\ freq_ms = MC_DEFAULT_CHECKPOINT_FREQ_MS
  /\ max_strikes = CALC_MAX_STRIKES(MC_DEFAULT_SLAB_MAX_CHECK_DELAY_SECS, freq_ms)
  /\ ppc = "idle" /\ mstate = "ACTIVE" /\ pmc = NoRing /\ mc_staging = FALSE
  /\ vm_running = TRUE /\ tick = 0 /\ bytes_xfer = 0
  /\ to_save = 0 /\ save_val = 0 /\ pslab = 0 /\ pret = 0
  /\ p2s = <<>> /\ s2p = <<>> /\ link = "up"
  /\ spc = "idle" /\ smc = NoRing /\ checkpoint_size = 0 /\ received = 0
  /\ sslab = 0
  /\ buffering_enabled = 0 /\ qplugged = FALSE /\ qqueue = <<>>
  /\ released = {}
  /\ hist = Hist0
  /\ transit_bitmap = [b \in RdmaBlocks |-> {}]
  /\ nb_sent = 0 /\ lc_nb_sent = [lc \in RdmaContexts |-> 0]
  /\ chunk_cur = [lc \in RdmaContexts |-> NoChunk]
  /\ sendq = [lc \in RdmaContexts |-> <<>>]
  /\ wpc = WIdle /\ error_state = 0
  /\ posted_recv = [p \in Peers |-> <<RDMA_WRID_READY>>]
  /\ recv_cq = [p \in Peers |-> <<>>]
  /\ control_ready_expected = [p \in Peers |-> IF p = "src" THEN 1 ELSE 0]
  /\ cpc = [p \in Peers |-> "idle"] /\ peer_error = [p \in Peers |-> 0]
  /\ creq = "NONE" /\ chist = CHist0
  /\ blockmap = Registry0.map /\ local_ram_blocks = Registry0.local
  /\ entry = Entry0 /\ work_posted = 0
  /\ migration_started = FALSE /\ keepalive = 0 /\ last_keepalive = 0
  /\ nb_missed_keepalive = 0 /\ keepalive_startup = FALSE
  /\ qp_state = "IBV_QPS_RTS" /\ connection_timer = 0
  /\ keepalive_timer = FALSE /\ hka = [run |-> 0, checks |-> 0]
  /\ remote_keys = [c \in RegChunks |-> 0]
  /\ pmr = [p \in Peers |-> {}]
  /\ unregistrations = [i \in 0..(RDMA_SEND_MAX - 1) |-> NoWrid]
  /\ unregister_current = 0 /\ unregister_next = 0
  /\ unregister_bitmap = {}
  /\ reg_wire = NoMsg /\ reg_resp = NoMsg /\ dblock = "unset"
  /\ reg_hist = RHist0 /\ reg_pc = RIdle
  /\ m_cc = NoChunk /\ m_start = 0 /\ m_saved = 0 /\ m_flushes = 0
  /\ m_pc = "saving"
  /\ shk = Shk0
  /\ nics = <<"tap">> /\ nic_ctl = NicCtl0 /\ nic_hist = NicHist0
  /\ capneg = CapNeg0
  /\ sync = Sync0

NextKeepalive == K_Start \/ K_PeerKeepalive \/ K_SendKeepalive \/ K_Check

SpecKeepalive == InitKeepalive /\ [][NextKeepalive]_vars

\* ---------------------------------- chunk registration on demand: actions
\* The buffer of chunk_remote once the page at addr is the only one in it.
reg_write_start(addr) ==
  [write_start(chunk_cur["lc_remote"], 1, addr) EXCEPT !.current_length = 1]

\* The tail of qemu_rdma_write: qemu_rdma_register_and_get_keys for the
\* lkey, ibv_post_send, set_bit, the counters, the buffer emptied; then, in
\* qemu_rdma_flush_unmergable, the page that did not fit starts the next
\* buffer.
reg_post_write(chunk, keys) ==
  /\ remote_keys' = keys
  /\ pmr' = [pmr EXCEPT !["src"] = @ \cup {chunk}]
  /\ sendq' = [sendq EXCEPT !["lc_remote"] =
        Append(@, qemu_rdma_make_wrid(RDMA_WRID_RDMA_WRITE_REMOTE, 0, chunk))]
  /\ transit_bitmap' = [transit_bitmap EXCEPT ![0] = set_bit(chunk, @)]
  /\ nb_sent' = nb_sent + 1
  /\ lc_nb_sent' = [lc_nb_sent EXCEPT !["lc_remote"] = @ + 1]
  /\ chunk_cur' = [chunk_cur EXCEPT !["lc_remote"] =
        IF reg_pc.caller = "save_page" THEN reg_write_start(reg_pc.addr)
        ELSE [@ EXCEPT !.current_length = 0, !.current_addr = 0]]
  /\ reg_pc' = RIdle

\* qemu_rdma_save_page, size > 0: merge the page into the buffer, or go and
\* write the buffer out first.
G_SavePage ==
  /\ reg_pc.pc = "idle" /\ error_state = 0
  /\ \E addr \in 0..(BlockPages(0) - 1) :
       LET cc == chunk_cur["lc_remote"]
       IN IF qemu_rdma_buffer_mergable(cc, addr, 1)
          THEN /\ chunk_cur' = [chunk_cur EXCEPT
                                  !["lc_remote"].current_length = @ + 1]
               /\ UNCHANGED reg_pc
          ELSE IF cc.current_length = 0
          THEN /\ chunk_cur' = [chunk_cur EXCEPT
                                  !["lc_remote"] = reg_write_start(addr)]
               /\ UNCHANGED reg_pc
          ELSE /\ reg_pc' = [pc |-> "write", caller |-> "save_page",
                             addr |-> addr]
               /\ UNCHANGED chunk_cur
  /\ UNCHANGED <<remote_keys, pmr, unregistrations, unregister_current,
                 unregister_next, unregister_bitmap, reg_wire, reg_resp,
                 dblock, reg_hist, transit_bitmap, nb_sent, lc_nb_sent,
                 sendq, error_state, wpc, notreg>>

\* qemu_rdma_put_buffer, qemu_rdma_drain_cq, qemu_rdma_registration_stop:
\* write out what is buffered.
G_FlushCall ==
  /\ reg_pc.pc = "idle" /\ error_state = 0
  /\ chunk_cur["lc_remote"].current_length # 0
  /\ \E caller \in {"put_buffer", "drain_cq"} :
       reg_pc' = [pc |-> "write", caller |-> caller, addr |-> 0 - 1]
  /\ UNCHANGED <<remote_keys, pmr, unregistrations, unregister_current,
                 unregister_next, unregister_bitmap, reg_wire, reg_resp,
                 dblock, reg_hist, rdmavars, notreg>>

reg_sends_data(key, zero) ==
  IF key = 0 THEN "REGISTER_REQUEST" ELSE "WRITE"

reg_sends_again(key, zero) ==
  IF key = 0 /\ zero THEN "COMPRESS" ELSE "REGISTER_REQUEST"

\* qemu_rdma_write, pin_all off, what goes out for a chunk by its
\* remote_keys entry and by whether the buffered bytes are all zero.
reg_sends(key, zero) ==
  IF key = 0
  THEN IF zero THEN "COMPRESS" ELSE "REGISTER_REQUEST"
  ELSE "WRITE"

\* qemu_rdma_write once the chunk is not in transit: an unregistered chunk
\* of zero pages is sent as one COMPRESS message (return 1, the buffer is
\* left as it is; qemu_rdma_save_page takes the 1 for an error and records
\* it); an unregistered chunk with data is registered first; a registered
\* chunk is written.  ret is what qemu_rdma_exchange_send returns.
G_Write ==
  /\ reg_pc.pc = "write" /\ reg_hist.flushes < MaxFlushes
  /\ LET chunk == install_boundaries(chunk_cur["lc_remote"])
     IN /\ ~test_bit(chunk, transit_bitmap[0])
        /\ \E zero \in BOOLEAN, ret \in {0, 0 - EIO} :
             LET what == reg_sends(remote_keys[chunk], zero)
                 h == [reg_hist EXCEPT !.flushes = @ + 1,
                         !.last = [chunk |-> chunk, zero |-> zero,
                                   ret |-> IF ret = 0 /\ what = "COMPRESS"
                                           THEN 1 ELSE ret]]
             IN IF what = "WRITE"
                THEN /\ ret = 0
                     /\ reg_hist' = [h EXCEPT !.writes = @ + 1]
                     /\ reg_post_write(chunk, remote_keys)
                     /\ UNCHANGED <<reg_wire, error_state>>
                ELSE /\ reg_wire = NoMsg
                     /\ IF ret < 0
                        THEN /\ reg_hist' = h
                             /\ error_state' = SET_ERROR(error_state, ret)
                             /\ reg_pc' = RIdle
                             /\ UNCHANGED reg_wire
                        ELSE IF what = "COMPRESS"
                        THEN /\ reg_wire' = [type |-> "COMPRESS",
                                             chunk |-> chunk]
                             /\ reg_hist' = [h EXCEPT !.compress = @ + 1]
                             /\ error_state' =
                                  IF reg_pc.caller = "save_page"
                                  THEN SET_ERROR(error_state, 1)
                                  ELSE error_state
                             /\ reg_pc' = RIdle
                        ELSE /\ reg_wire' = [type |-> "REGISTER_REQUEST",
                                             chunk |-> chunk]
                             /\ reg_hist' = [h EXCEPT !.regs[chunk] = @ + 1]
                             /\ reg_pc' = [reg_pc EXCEPT !.pc = "reg_wait"]
                             /\ UNCHANGED error_state
                     /\ UNCHANGED <<remote_keys, pmr, sendq, transit_bitmap,
                                    nb_sent, lc_nb_sent, chunk_cur>>
  /\ UNCHANGED <<unregistrations, unregister_current, unregister_next,
                 unregister_bitmap, reg_resp, dblock, wpc, notreg>>

\* ... the REGISTER_RESULT has arrived: remote_keys[chunk] takes the rkey,
\* and the chunk is written.
G_RegResult ==
  /\ reg_pc.pc = "reg_wait" /\ reg_resp.type = "REGISTER_RESULT"
  /\ LET chunk == install_boundaries(chunk_cur["lc_remote"])
     IN /\ reg_post_write(chunk,
                          [remote_keys EXCEPT ![chunk] = reg_resp.chunk])
        /\ reg_hist' = [reg_hist EXCEPT !.writes = @ + 1]
  /\ reg_resp' = NoMsg
  /\ UNCHANGED <<unregistrations, unregister_current, unregister_next,
                 unregister_bitmap, reg_wire, dblock, error_state, wpc,
                 notreg>>

\* qemu_rdma_exchange_send fails while the source waits for the response.
G_ExchangeFail ==
  /\ reg_pc.pc \in {"reg_wait", "unreg_wait"}
  /\ error_state' = SET_ERROR(error_state, 0 - EIO)
  /\ reg_pc' = RIdle
  /\ UNCHANGED <<remote_keys, pmr, unregistrations, unregister_current,
                 unregister_next, unregister_bitmap, reg_wire, reg_resp,
                 dblock, reg_hist, transit_bitmap, nb_sent, lc_nb_sent,
                 chunk_cur, sendq, wpc, notreg>>

\* A WRITE completes and is polled.
G_Complete ==
  /\ reg_pc.pc \in {"idle", "write"} /\ sendq["lc_remote"] # <<>>
  /\ SetRS(qemu_rdma_poll(RS, "lc_remote", "IBV_WC_SUCCESS").st)
  /\ UNCHANGED <<remote_keys, pmr, unregistrations, unregister_current,
                 unregister_next, unregister_bitmap, reg_wire, reg_resp,
                 dblock, reg_hist, reg_pc, chunk_cur, error_state, wpc,
                 notreg>>

G_InstructUnregister_nobit ==
  /\ reg_pc.pc = "idle" /\ error_state = 0
  /\ \E chunk \in RegChunks :
       IF unregistrations[unregister_next] # NoWrid
       THEN UNCHANGED <<unregistrations, unregister_next, unregister_bitmap>>
       ELSE /\ unregister_bitmap' = set_bit(chunk, unregister_bitmap)
            /\ unregistrations' = [unregistrations EXCEPT
                  ![unregister_next] = qemu_rdma_make_wrid(0, 0, chunk)]
            /\ unregister_next' = (unregister_next + 1) % RDMA_SEND_MAX
  /\ UNCHANGED <<remote_keys, pmr, unregister_current, reg_wire, reg_resp,
                 dblock, reg_hist, reg_pc, rdmavars, notreg>>

\* qemu_rdma_save_page, size = 0: qemu_rdma_instruct_unregister hints that
\* a chunk may be unregistered (qemu_rdma_signal_unregister).
G_InstructUnregister ==
  /\ reg_pc.pc = "idle" /\ error_state = 0
  /\ \E chunk \in RegChunks :
       IF unregistrations[unregister_next] # NoWrid
          \/ test_bit(chunk, unregister_bitmap)
       THEN UNCHANGED <<unregistrations, unregister_next, unregister_bitmap>>
       ELSE /\ unregister_bitmap' = set_bit(chunk, unregister_bitmap)
            /\ unregistrations' = [unregistrations EXCEPT
                  ![unregister_next] = qemu_rdma_make_wrid(0, 0, chunk)]
            /\ unregister_next' = (unregister_next + 1) % RDMA_SEND_MAX
  /\ UNCHANGED <<remote_keys, pmr, unregister_current, reg_wire, reg_resp,
                 dblock, reg_hist, reg_pc, rdmavars, notreg>>

\* qemu_rdma_unregister_waiting, one turn of its loop (from
\* qemu_rdma_drain_cq): the chunk is unpinned and forgotten on the source,
\* then the destination is asked to unregister it.  Unpinning a chunk that
\* holds no memory region hands ibv_dereg_mr a null pointer.
G_UnregisterWaiting ==
  /\ reg_pc.pc = "idle" /\ error_state = 0
  /\ unregistrations[unregister_current] # NoWrid
  /\ LET chunk == unregistrations[unregister_current].chunk
     IN /\ unregistrations' = [unregistrations EXCEPT
                                 ![unregister_current] = NoWrid]
        /\ unregister_current' = (unregister_current + 1) % RDMA_SEND_MAX
        /\ unregister_bitmap' = clear_bit(chunk, unregister_bitmap)
        /\ IF test_bit(chunk, transit_bitmap[0])
           THEN UNCHANGED <<remote_keys, pmr, reg_wire, reg_pc, reg_hist>>
           ELSE IF chunk \notin pmr["src"]
           THEN /\ reg_pc' = [reg_pc EXCEPT !.pc = "crashed"]
                /\ UNCHANGED <<remote_keys, pmr, reg_wire, reg_hist>>
           ELSE /\ reg_wire = NoMsg
                /\ pmr' = [pmr EXCEPT !["src"] = @ \ {chunk}]
                /\ remote_keys' = [remote_keys EXCEPT ![chunk] = 0]
                /\ reg_wire' = [type |-> "UNREGISTER_REQUEST",
                                chunk |-> chunk]
                /\ reg_hist' = [reg_hist EXCEPT !.unregs[chunk] = @ + 1]
                /\ reg_pc' = [reg_pc EXCEPT !.pc = "unreg_wait"]
  /\ UNCHANGED <<unregister_next, reg_resp, dblock, rdmavars, notreg>>

\* ... UNREGISTER_FINISHED has arrived.
G_UnregFinished ==
  /\ reg_pc.pc = "unreg_wait" /\ reg_resp.type = "UNREGISTER_FINISHED"
  /\ reg_resp' = NoMsg
  /\ reg_pc' = RIdle
  /\ UNCHANGED <<remote_keys, pmr, unregistrations, unregister_current,
                 unregister_next, unregister_bitmap, reg_wire, dblock,
                 reg_hist, rdmavars, notreg>>

\* qemu_rdma_registration_stop: REGISTER_FINISHED ends the destination's
\* handler; its next call starts with its local variables unset.
G_RegistrationStop ==
  /\ reg_pc.pc = "idle" /\ error_state = 0
  /\ chunk_cur["lc_remote"].current_length = 0
  /\ reg_wire = NoMsg
  /\ reg_wire' = [type |-> "REGISTER_FINISHED", chunk |-> 0 - 1]
  /\ UNCHANGED <<remote_keys, pmr, unregistrations, unregister_current,
                 unregister_next, unregister_bitmap, reg_resp, dblock,
                 reg_hist, reg_pc, rdmavars, notreg>>

\* qemu_rdma_registration_handle takes one request.  For a RAM block the
\* REGISTER_REQUEST case computes the chunk index from the handler's local
\* variable block, which only the COMPRESS and UNREGISTER_REQUEST cases
\* assign: unset, the index is whatever the build makes of it.
D_Handle ==
  /\ reg_wire # NoMsg /\ dblock # "crashed"
  /\ reg_wire' = NoMsg
  /\ IF reg_wire.type = "COMPRESS"
     THEN dblock' = "set" /\ UNCHANGED <<pmr, reg_resp>>
     ELSE IF reg_wire.type = "REGISTER_FINISHED"
     THEN dblock' = "unset" /\ UNCHANGED <<pmr, reg_resp>>
     ELSE IF reg_wire.type = "REGISTER_REQUEST"
     THEN \E chunk_idx \in RegChunks :
            /\ dblock = "set" => chunk_idx = reg_wire.chunk
            /\ pmr' = [pmr EXCEPT !["dst"] = @ \cup {chunk_idx}]
            /\ reg_resp' = [type |-> "REGISTER_RESULT",
                            chunk |-> RkeyOf(chunk_idx)]
            /\ UNCHANGED dblock
     ELSE IF reg_wire.chunk \in pmr["dst"]
     THEN /\ pmr' = [pmr EXCEPT !["dst"] = @ \ {reg_wire.chunk}]
          /\ reg_resp' = [type |-> "UNREGISTER_FINISHED", chunk |-> 0 - 1]
          /\ dblock' = "set"
     ELSE dblock' = "crashed" /\ UNCHANGED <<pmr, reg_resp>>
  /\ UNCHANGED <<remote_keys, unregistrations, unregister_current,
                 unregister_next, unregister_bitmap, reg_hist, reg_pc,
                 rdmavars, notreg>>

InitReg ==
  /\ mc = NoRing
  /\ rput = <<>> /\ rgot = <<>> /\ rreq = 0 /\ rret = 0
  /\ rphase = "idle" /\ rshrunk = 0
  /\ freq_ms = MC_DEFAULT_CHECKPOINT_FREQ_MS
  /\ max_strikes = CALC_MAX_STRIKES(MC_DEFAULT_SLAB_MAX_CHECK_DELAY_SECS, freq_ms)
  /\ ppc = "idle" /\ mstate = "ACTIVE" /\ pmc = NoRing /\ mc_staging = FALSE
  /\ vm_running = TRUE /\ tick = 0 /\ bytes_xfer = 0
  /\ to_save = 0 /\ save_val = 0 /\ pslab = 0 /\ pret = 0
  /\ p2s = <<>> /\ s2p = <<>> /\ link = "up"
  /\ spc = "idle" /\ smc = NoRing /\ checkpoint_size = 0 /\ received = 0
  /\ sslab = 0
  /\ buffering_enabled = 0 /\ qplugged = FALSE /\ qqueue = <<>>
  /\ released = {}
  /\ hist = Hist0
  /\ transit_bitmap = [b \in RdmaBlocks |-> {}]
  /\ nb_sent = 0 /\ lc_nb_sent = [lc \in RdmaContexts |-> 0]
  /\ chunk_cur = [lc \in RdmaContexts |-> NoChunk]
  /\ sendq = [lc \in RdmaContexts |-> <<>>]
  /\ wpc = WIdle /\ error_state = 0
  /\ posted_recv = [p \in Peers |-> <<RDMA_WRID_READY>>]
  /\ recv_cq = [p \in Peers |-> <<>>]
  /\ control_ready_expected = [p \in Peers |-> IF p = "src" THEN 1 ELSE 0]
  /\ cpc = [p \in Peers |-> "idle"] /\ peer_error = [p \in Peers |-> 0]
  /\ creq = "NONE" /\ chist = CHist0
  /\ blockmap = Registry0.map /\ local_ram_blocks = Registry0.local
  /\ entry = Entry0 /\ work_posted = 0
  /\ migration_started = FALSE /\ keepalive = 0 /\ last_keepalive = 0
  /\ nb_missed_keepalive = 0 /\ keepalive_startup = FALSE
  /\ qp_state = "IBV_QPS_RTS" /\ connection_timer = 0
  /\ keepalive_timer = FALSE /\ hka = [run |-> 0, checks |-> 0]
  /\ remote_keys = [c \in RegChunks |-> 0]
  /\ pmr = [p \in Peers |-> {}]
  /\ unregistrations = [i \in 0..(RDMA_SEND_MAX - 1) |-> NoWrid]
  /\ unregister_current = 0 /\ unregister_next = 0
  /\ unregister_bitmap = {}
  /\ reg_wire = NoMsg /\ reg_resp = NoMsg /\ dblock = "unset"
  /\ reg_hist = RHist0 /\ reg_pc = RIdle
  /\ m_cc = NoChunk /\ m_start = 0 /\ m_saved = 0 /\ m_flushes = 0
  /\ m_pc = "saving"
  /\ shk = Shk0
  /\ nics = <<"tap">> /\ nic_ctl = NicCtl0 /\ nic_hist = NicHist0
  /\ capneg = CapNeg0
  /\ sync = Sync0

NextReg ==
  \/ G_SavePage \/ G_FlushCall \/ G_Write \/ G_RegResult \/ G_ExchangeFail
  \/ G_Complete \/ G_InstructUnregister \/ G_UnregisterWaiting
  \/ G_UnregFinished \/ G_RegistrationStop \/ D_Handle

SpecReg == InitReg /\ [][NextReg]_vars

\* --------------------------------------- merging pages in 4 KiB accuracy
\* One RAM block, registered as a whole (pin_all), long enough for the run
\* wherever it starts in the block's first chunk.  Addresses and lengths
\* are counted in pages of 4 KiB from the start of the block.
MergeBlockLen == (SavePages \div RDMA_REG_CHUNK_4K + 2) * RDMA_REG_CHUNK_4K
MergeStarts == 0..(RDMA_REG_CHUNK_4K - 1)

m_ram_chunk_end(i) == Min((i + 1) * RDMA_REG_CHUNK_4K, MergeBlockLen)

m_buffer_mergable_nochunk(cc, addr, len) ==
  /\ cc.current_block_idx >= 0
  /\ cc.current_chunk >= 0
  /\ cc.current_length # 0
  /\ addr = cc.current_addr + cc.current_length
  /\ addr + len <= MergeBlockLen

\* qemu_rdma_buffer_mergable.
m_buffer_mergable(cc, addr, len) ==
  /\ cc.current_block_idx >= 0
  /\ cc.current_chunk >= 0
  /\ cc.current_length # 0
  /\ addr = cc.current_addr + cc.current_length
  /\ addr >= 0
  /\ addr + len <= MergeBlockLen
  /\ addr + len <= m_ram_chunk_end(cc.current_chunk)

\* qemu_rdma_write on a registered block: nothing to do for an empty
\* buffer; else one RDMA WRITE is posted and the buffer emptied.
m_write(st) ==
  IF st.cc.current_length = 0 THEN st
  ELSE [cc |-> [st.cc EXCEPT !.current_length = 0, !.current_addr = 0],
        flushes |-> st.flushes + 1]

\* qemu_rdma_flush_unmergable followed by write_start.
m_flush_unmergable(st, addr, len) ==
  IF m_buffer_mergable(st.cc, addr, len)
  THEN [st EXCEPT !.cc.current_length = @ + len]
  ELSE [m_write(st) EXCEPT
          !.cc = [current_block_idx |-> 0,
                  current_chunk |-> addr \div RDMA_REG_CHUNK_4K,
                  current_addr |-> addr, current_length |-> len]]

\* qemu_rdma_save_page, size > 0.
m_save_page(st, addr) ==
  LET s1 == m_flush_unmergable(st, addr, 1)
  IN IF s1.cc.current_length >= RDMA_MERGE_MAX_4K THEN m_write(s1) ELSE s1

\* The chunks the pages of the run lie in.
ChunksTouched ==
  ((m_start + SavePages - 1) \div RDMA_REG_CHUNK_4K)
    - (m_start \div RDMA_REG_CHUNK_4K) + 1

\* qemu_rdma_save_page for the next page of the run.
M_SavePage ==
  /\ m_pc = "saving" /\ m_saved < SavePages
  /\ LET st == m_save_page([cc |-> m_cc, flushes |-> m_flushes],
                           m_start + m_saved)
     IN m_cc' = st.cc /\ m_flushes' = st.flushes
  /\ m_saved' = m_saved + 1
  /\ UNCHANGED <<m_start, m_pc, shk, nics, nic_ctl, nic_hist, capneg,
                 latevars, notmerge>>

\* qemu_rdma_drain_cq after the last page: what is buffered is written.
M_Drain ==
  /\ m_pc = "saving" /\ m_saved = SavePages
  /\ LET st == m_write([cc |-> m_cc, flushes |-> m_flushes])
     IN m_cc' = st.cc /\ m_flushes' = st.flushes
  /\ m_pc' = "done"
  /\ UNCHANGED <<m_start, m_saved, shk, nics, nic_ctl, nic_hist, capneg,
                 latevars, notmerge>>

InitMerge ==
  /\ mc = NoRing
  /\ rput = <<>> /\ rgot = <<>> /\ rreq = 0 /\ rret = 0
  /\ rphase = "idle" /\ rshrunk = 0
  /\ freq_ms = MC_DEFAULT_CHECKPOINT_FREQ_MS
  /\ max_strikes = CALC_MAX_STRIKES(MC_DEFAULT_SLAB_MAX_CHECK_DELAY_SECS, freq_ms)
  /\ ppc = "idle" /\ mstate = "ACTIVE" /\ pmc = NoRing /\ mc_staging = FALSE
  /\ vm_running = TRUE /\ tick = 0 /\ bytes_xfer = 0
  /\ to_save = 0 /\ save_val = 0 /\ pslab = 0 /\ pret = 0
  /\ p2s = <<>> /\ s2p = <<>> /\ link = "up"
  /\ spc = "idle" /\ smc = NoRing /\ checkpoint_size = 0 /\ received = 0
  /\ sslab = 0
  /\ buffering_enabled = 0 /\ qplugged = FALSE /\ qqueue = <<>>
  /\ released = {}
  /\ hist = Hist0
  /\ transit_bitmap = [b \in RdmaBlocks |-> {}]
  /\ nb_sent = 0 /\ lc_nb_sent = [lc \in RdmaContexts |-> 0]
  /\ chunk_cur = [lc \in RdmaContexts |-> NoChunk]
  /\ sendq = [lc \in RdmaContexts |-> <<>>]
  /\ wpc = WIdle /\ error_state = 0
  /\ posted_recv = [p \in Peers |-> <<RDMA_WRID_READY>>]
  /\ recv_cq = [p \in Peers |-> <<>>]
  /\ control_ready_expected = [p \in Peers |-> IF p = "src" THEN 1 ELSE 0]
  /\ cpc = [p \in Peers |-> "idle"] /\ peer_error = [p \in Peers |-> 0]
  /\ creq = "NONE" /\ chist = CHist0
  /\ blockmap = Registry0.map /\ local_ram_blocks = Registry0.local
  /\ entry = Entry0 /\ work_posted = 0
  /\ migration_started = FALSE /\ keepalive = 0 /\ last_keepalive = 0
  /\ nb_missed_keepalive = 0 /\ keepalive_startup = FALSE
  /\ qp_state = "IBV_QPS_RTS" /\ connection_timer = 0
  /\ keepalive_timer = FALSE /\ hka = [run |-> 0, checks |-> 0]
  /\ remote_keys = [c \in RegChunks |-> 0]
  /\ pmr = [p \in Peers |-> {}]
  /\ unregistrations = [i \in 0..(RDMA_SEND_MAX - 1) |-> NoWrid]
  /\ unregister_current = 0 /\ unregister_next = 0
  /\ unregister_bitmap = {}
  /\ reg_wire = NoMsg /\ reg_resp = NoMsg /\ dblock = "unset"
  /\ reg_hist = RHist0 /\ reg_pc = RIdle
  /\ m_cc = NoChunk /\ m_start \in MergeStarts /\ m_saved = 0 /\ m_flushes = 0
  /\ m_pc = "saving"
  /\ shk = Shk0
  /\ nics = <<"tap">> /\ nic_ctl = NicCtl0 /\ nic_hist = NicHist0
  /\ capneg = CapNeg0
  /\ sync = Sync0

NextMerge == M_SavePage \/ M_Drain

SpecMerge == InitMerge /\ [][NextMerge]_vars

\* ------------------------------------------ the slab cache over many ticks
\* freq_ms and max_strikes_delay_secs keep their defaults, so max_strikes
\* is 100.  Every checkpoint begins with mc_slab_start and then stages its
\* data with mc_put_buffer: nothing, as much as leaves the last slab empty,
\* or as much as fills every slab.
Zeros(n) == [i \in 1..n |-> 0]

UnderUsed(m) ==
  m.nb_slabs >= 2 /\ m.slab_total <= (m.nb_slabs - 1) * MC_SLAB_BUFFER_SIZE

T_Tick ==
  /\ LET m1 == mc_slab_start(mc, max_strikes)
     IN \E n \in {0, (m1.nb_slabs - 1) * MC_SLAB_BUFFER_SIZE,
                  m1.nb_slabs * MC_SLAB_BUFFER_SIZE} :
          mc' = mc_put_buffer(m1, Zeros(n))
  /\ shk' = IF mc.nb_slabs >= 2 /\ mc.strikes >= max_strikes
            THEN [shk EXCEPT !.streak = @ + 1, !.shrunk = TRUE]
            ELSE IF UnderUsed(mc)
            THEN IF shk.streak = 0 \/ shk.shrunk
                 THEN [streak |-> 1, nb0 |-> mc.nb_slabs, shrunk |-> FALSE]
                 ELSE [shk EXCEPT !.streak = @ + 1]
            ELSE [streak |-> 0, nb0 |-> mc.nb_slabs, shrunk |-> FALSE]
  /\ UNCHANGED <<rput, rgot, rreq, rret, rphase, rshrunk, cfgvars, mcvars,
                 rdmavars, ctlvars, entvars, kavars, regvars, m_cc, m_start,
                 m_saved, m_flushes, m_pc, nics, nic_ctl, nic_hist, capneg,
                 latevars>>

InitShrink ==
  /\ \E nb \in 2..MaxSlabs :
       mc = mc_put_buffer(qemu_fopen_mc, Zeros((nb - 1) * MC_SLAB_BUFFER_SIZE + 1))
  /\ rput = <<>> /\ rgot = <<>> /\ rreq = 0 /\ rret = 0
  /\ rphase = "idle" /\ rshrunk = 0
  /\ freq_ms = MC_DEFAULT_CHECKPOINT_FREQ_MS
  /\ max_strikes = CALC_MAX_STRIKES(MC_DEFAULT_SLAB_MAX_CHECK_DELAY_SECS, freq_ms)
  /\ ppc = "idle" /\ mstate = "ACTIVE" /\ pmc = NoRing /\ mc_staging = FALSE
  /\ vm_running = TRUE /\ tick = 0 /\ bytes_xfer = 0
  /\ to_save = 0 /\ save_val = 0 /\ pslab = 0 /\ pret = 0
  /\ p2s = <<>> /\ s2p = <<>> /\ link = "up"
  /\ spc = "idle" /\ smc = NoRing /\ checkpoint_size = 0 /\ received = 0
  /\ sslab = 0
  /\ buffering_enabled = 0 /\ qplugged = FALSE /\ qqueue = <<>>
  /\ released = {}
  /\ hist = Hist0
  /\ transit_bitmap = [b \in RdmaBlocks |-> {}]
  /\ nb_sent = 0 /\ lc_nb_sent = [lc \in RdmaContexts |-> 0]
  /\ chunk_cur = [lc \in RdmaContexts |-> NoChunk]
  /\ sendq = [lc \in RdmaContexts |-> <<>>]
  /\ wpc = WIdle /\ error_state = 0
  /\ posted_recv = [p \in Peers |-> <<RDMA_WRID_READY>>]
  /\ recv_cq = [p \in Peers |-> <<>>]
  /\ control_ready_expected = [p \in Peers |-> IF p = "src" THEN 1 ELSE 0]
  /\ cpc = [p \in Peers |-> "idle"] /\ peer_error = [p \in Peers |-> 0]
  /\ creq = "NONE" /\ chist = CHist0
  /\ blockmap = Registry0.map /\ local_ram_blocks = Registry0.local
  /\ entry = Entry0 /\ work_posted = 0
  /\ migration_started = FALSE /\ keepalive = 0 /\ last_keepalive = 0
  /\ nb_missed_keepalive = 0 /\ keepalive_startup = FALSE
  /\ qp_state = "IBV_QPS_RTS" /\ connection_timer = 0
  /\ keepalive_timer = FALSE /\ hka = [run |-> 0, checks |-> 0]
  /\ remote_keys = [c \in RegChunks |-> 0]
  /\ pmr = [p \in Peers |-> {}]
  /\ unregistrations = [i \in 0..(RDMA_SEND_MAX - 1) |-> NoWrid]
  /\ unregister_current = 0 /\ unregister_next = 0
  /\ unregister_bitmap = {}
  /\ reg_wire = NoMsg /\ reg_resp = NoMsg /\ dblock = "unset"
  /\ reg_hist = RHist0 /\ reg_pc = RIdle
  /\ m_cc = NoChunk /\ m_start = 0 /\ m_saved = 0 /\ m_flushes = 0
  /\ m_pc = "saving"
  /\ shk = Shk0
  /\ nics = <<"tap">> /\ nic_ctl = NicCtl0 /\ nic_hist = NicHist0
  /\ capneg = CapNeg0
  /\ sync = Sync0

NextShrink == T_Tick

SpecShrink == InitShrink /\ [][NextShrink]_vars

\* ------------------------------------------ traffic buffering: the handles
\* What qemu_foreach_nic can find: a NIC whose host device is a tap device
\* ("ifname=tap..."), one whose host device has another name, and one with
\* no host device or no ifname at all.
NicKinds == {"tap", "eth", "none"}
NicLists == {<<>>} \cup {<<a>> : a \in NicKinds}
               \cup {<<a, b>> : a \in NicKinds, b \in NicKinds}
\* dev[] of mc_enable_buffering before anything is stored in it.
DevUnset == "unset"

\* init_mc_nic_buffering for one NIC: st is the device name found so far
\* and the static first_nic_chosen.
init_mc_nic_buffering(st, nic) ==
  IF st.first_nic_chosen # 0 THEN st
  ELSE IF nic = "none" THEN st
  ELSE [dev |-> nic, first_nic_chosen |-> 1]

RECURSIVE qemu_foreach_nic(_, _)
qemu_foreach_nic(st, list) ==
  IF list = <<>> THEN st
  ELSE qemu_foreach_nic(init_mc_nic_buffering(st, Head(list)), Tail(list))

\* The assignments at out: of mc_disable_buffering.
nic_disabled(ctl) ==
  [ctl EXCEPT !.sock = FALSE, !.qdisc = FALSE, !.tc = FALSE,
              !.link_cache = FALSE, !.ops = FALSE, !.tm = FALSE]

\* mc_enable_buffering.  dev is an array on the stack: if no NIC stores a
\* name in it, what strncmp finds there is not determined (tapfound).  The
\* netlink calls fail before buffering_enabled is set ("setup"), after it
\* ("deliver"), or not at all.
C_Enable ==
  /\ nic_hist.n < MaxCalls
  /\ \E tapfound \in BOOLEAN, fails \in {"no", "setup", "deliver"} :
       LET st == qemu_foreach_nic(
                   [dev |-> DevUnset,
                    first_nic_chosen |-> nic_ctl.first_nic_chosen], nics)
           ctl == [nic_ctl EXCEPT !.first_nic_chosen = st.first_nic_chosen]
           tap == IF st.dev = DevUnset THEN tapfound ELSE st.dev = "tap"
           ok == tap /\ fails = "no"
           ret == IF buffering_enabled # 0 \/ ok THEN 0 ELSE 0 - EINVAL
       IN /\ st.dev # DevUnset => tapfound
          /\ IF buffering_enabled # 0
             THEN UNCHANGED <<buffering_enabled, nic_ctl>>
             ELSE IF ok
             THEN /\ buffering_enabled' = 1
                  /\ nic_ctl' = [ctl EXCEPT !.sock = TRUE, !.qdisc = TRUE,
                                   !.tc = TRUE, !.link_cache = TRUE,
                                   !.ops = TRUE, !.tm = TRUE]
             ELSE /\ buffering_enabled' = 0
                  /\ nic_ctl' = nic_disabled(ctl)
          /\ nic_hist' = [n |-> nic_hist.n + 1,
                          ops |-> Append(nic_hist.ops, "enable"),
                          rets |-> Append(nic_hist.rets, ret),
                          pre |-> [en |-> buffering_enabled,
                                   ctl |-> nic_ctl]]
  /\ UNCHANGED <<nics, qplugged, qqueue, released, ringvars, cfgvars,
                 privars, chanvars, secvars, hist, rdmavars, ctlvars, entvars,
                 kavars, regvars, m_cc, m_start, m_saved, m_flushes, m_pc,
                 shk, capneg, latevars>>

\* mc_disable_buffering.
C_Disable ==
  /\ nic_hist.n < MaxCalls
  /\ buffering_enabled' = 0
  /\ nic_ctl' = nic_disabled(nic_ctl)
  /\ nic_hist' = [nic_hist EXCEPT !.n = @ + 1,
                                  !.ops = Append(@, "disable"),
                                  !.rets = Append(@, 0)]
  /\ UNCHANGED <<nics, qplugged, qqueue, released, ringvars, cfgvars,
                 privars, chanvars, secvars, hist, rdmavars, ctlvars, entvars,
                 kavars, regvars, m_cc, m_start, m_saved, m_flushes, m_pc,
                 shk, capneg, latevars>>

InitNic ==
  /\ mc = NoRing
  /\ rput = <<>> /\ rgot = <<>> /\ rreq = 0 /\ rret = 0
  /\ rphase = "idle" /\ rshrunk = 0
  /\ freq_ms = MC_DEFAULT_CHECKPOINT_FREQ_MS
  /\ max_strikes = CALC_MAX_STRIKES(MC_DEFAULT_SLAB_MAX_CHECK_DELAY_SECS, freq_ms)
  /\ ppc = "idle" /\ mstate = "ACTIVE" /\ pmc = NoRing /\ mc_staging = FALSE
  /\ vm_running = TRUE /\ tick = 0 /\ bytes_xfer = 0
  /\ to_save = 0 /\ save_val = 0 /\ pslab = 0 /\ pret = 0
  /\ p2s = <<>> /\ s2p = <<>> /\ link = "up"
  /\ spc = "idle" /\ smc = NoRing /\ checkpoint_size = 0 /\ received = 0
  /\ sslab = 0
  /\ buffering_enabled = 0 /\ qplugged = FALSE /\ qqueue = <<>>
  /\ released = {}
  /\ hist = Hist0
  /\ transit_bitmap = [b \in RdmaBlocks |-> {}]
  /\ nb_sent = 0 /\ lc_nb_sent = [lc \in RdmaContexts |-> 0]
  /\ chunk_cur = [lc \in RdmaContexts |-> NoChunk]
  /\ sendq = [lc \in RdmaContexts |-> <<>>]
  /\ wpc = WIdle /\ error_state = 0
  /\ posted_recv = [p \in Peers |-> <<RDMA_WRID_READY>>]
  /\ recv_cq = [p \in Peers |-> <<>>]
  /\ control_ready_expected = [p \in Peers |-> IF p = "src" THEN 1 ELSE 0]
  /\ cpc = [p \in Peers |-> "idle"] /\ peer_error = [p \in Peers |-> 0]
  /\ creq = "NONE" /\ chist = CHist0
  /\ blockmap = Registry0.map /\ local_ram_blocks = Registry0.local
  /\ entry = Entry0 /\ work_posted = 0
  /\ migration_started = FALSE /\ keepalive = 0 /\ last_keepalive = 0
  /\ nb_missed_keepalive = 0 /\ keepalive_startup = FALSE
  /\ qp_state = "IBV_QPS_RTS" /\ connection_timer = 0
  /\ keepalive_timer = FALSE /\ hka = [run |-> 0, checks |-> 0]
  /\ remote_keys = [c \in RegChunks |-> 0]
  /\ pmr = [p \in Peers |-> {}]
  /\ unregistrations = [i \in 0..(RDMA_SEND_MAX - 1) |-> NoWrid]
  /\ unregister_current = 0 /\ unregister_next = 0
  /\ unregister_bitmap = {}
  /\ reg_wire = NoMsg /\ reg_resp = NoMsg /\ dblock = "unset"
  /\ reg_hist = RHist0 /\ reg_pc = RIdle
  /\ m_cc = NoChunk /\ m_start = 0 /\ m_saved = 0 /\ m_flushes = 0
  /\ m_pc = "saving"
  /\ shk = Shk0
  /\ nics \in NicLists /\ nic_ctl = NicCtl0 /\ nic_hist = NicHist0
  /\ capneg = CapNeg0
  /\ sync = Sync0

NextNic == C_Enable \/ C_Disable

SpecNic == InitNic /\ [][NextNic]_vars

\* ------------------------------------------------- capability negotiation
\* uint32_t arithmetic: the bit of weight b in x, and the bitwise and.
HasBit(x, b) == (x \div b) % 2 = 1
BitAnd(x, y) ==
  LET bit(b) == IF HasBit(x, b) /\ HasBit(y, b) THEN b ELSE 0
  IN bit(1) + bit(2) + bit(4) + bit(8) + bit(16777216) + bit(33554432)

\* The four bytes of a 32-bit word in the other order.
bswap32(x) ==
  (x % 256) * 16777216 + ((x \div 256) % 256) * 65536
    + ((x \div 65536) % 256) * 256 + ((x \div 16777216) % 256)

\* htonl and ntohl on a host of the given byte order.
htonl(x, order) == IF order = "be" THEN x ELSE bswap32(x)
ntohl_asis(x, order) == x
ntohl(x, order) == IF order = "be" THEN x ELSE bswap32(x)

\* memcpy between a host's memory and the private data of the connection
\* request: the bytes of a word as the host stores them, the wire being
\* written down as the big-endian reading of its bytes.
memcpy_word(x, order) == IF order = "be" THEN x ELSE bswap32(x)
memcpy_caps(cap, order) ==
  [version |-> memcpy_word(cap.version, order),
   flags |-> memcpy_word(cap.flags, order)]

caps_to_network(cap, order) ==
  [version |-> htonl(cap.version, order), flags |-> htonl(cap.flags, order)]
network_to_caps(cap, order) ==
  [version |-> ntohl(cap.version, order), flags |-> ntohl(cap.flags, order)]

\* cap.flags as qemu_rdma_connect builds it.
cap_flags(pin_all, do_keepalive) ==
  (IF pin_all THEN RDMA_CAPABILITY_PIN_ALL ELSE 0)
    + (IF do_keepalive THEN RDMA_CAPABILITY_KEEPALIVE ELSE 0)

\* qemu_rdma_connect up to rdma_connect: the request goes out.
A_Connect ==
  /\ capneg.pc = "connect"
  /\ capneg' = [capneg EXCEPT
       !.pc = "accept",
       !.wire = memcpy_caps(
                  caps_to_network(
                    [version |-> capneg.version_current,
                     flags |-> cap_flags(capneg.pin_all["src"],
                                         capneg.do_keepalive["src"])],
                    capneg.order["src"]),
                  capneg.order["src"])]
  /\ UNCHANGED <<m_cc, m_start, m_saved, m_flushes, m_pc, shk, nics, nic_ctl,
                 nic_hist, latevars, notmerge>>

\* qemu_rdma_accept: the request is read, cut down to the capabilities
\* known here, taken over, and sent back with rdma_accept.
A_Accept ==
  /\ capneg.pc = "accept"
  /\ LET cap == network_to_caps(memcpy_caps(capneg.wire, capneg.order["dst"]),
                                capneg.order["dst"])
         flags == BitAnd(cap.flags, capneg.known_capabilities)
     IN IF cap.version < 1 \/ cap.version > capneg.version_current
        THEN capneg' = [capneg EXCEPT !.pc = "failed", !.wire = NoCap]
        ELSE capneg' = [capneg EXCEPT
               !.pc = "established",
               !.pin_all["dst"] = BitAnd(flags, RDMA_CAPABILITY_PIN_ALL) # 0,
               !.do_keepalive["dst"] =
                  BitAnd(flags, RDMA_CAPABILITY_KEEPALIVE) # 0,
               !.wire = memcpy_caps(
                          caps_to_network([cap EXCEPT !.flags = flags],
                                          capneg.order["dst"]),
                          capneg.order["dst"])]
  /\ UNCHANGED <<m_cc, m_start, m_saved, m_flushes, m_pc, shk, nics, nic_ctl,
                 nic_hist, latevars, notmerge>>

\* qemu_rdma_connect after RDMA_CM_EVENT_ESTABLISHED: the reply is read and
\* what the destination does not support is switched off.
A_Established ==
  /\ capneg.pc = "established"
  /\ LET cap == network_to_caps(memcpy_caps(capneg.wire, capneg.order["src"]),
                                capneg.order["src"])
     IN capneg' = [capneg EXCEPT
          !.pc = "connected",
          !.reply = cap.flags,
          !.pin_all["src"] =
             IF @ /\ BitAnd(cap.flags, RDMA_CAPABILITY_PIN_ALL) = 0
             THEN FALSE ELSE @,
          !.do_keepalive["src"] =
             IF @ /\ BitAnd(cap.flags, RDMA_CAPABILITY_KEEPALIVE) = 0
             THEN FALSE ELSE @]
  /\ UNCHANGED <<m_cc, m_start, m_saved, m_flushes, m_pc, shk, nics, nic_ctl,
                 nic_hist, latevars, notmerge>>

InitCap ==
  /\ mc = NoRing
  /\ rput = <<>> /\ rgot = <<>> /\ rreq = 0 /\ rret = 0
  /\ rphase = "idle" /\ rshrunk = 0
  /\ freq_ms = MC_DEFAULT_CHECKPOINT_FREQ_MS
  /\ max_strikes = CALC_MAX_STRIKES(MC_DEFAULT_SLAB_MAX_CHECK_DELAY_SECS, freq_ms)
  /\ ppc = "idle" /\ mstate = "ACTIVE" /\ pmc = NoRing /\ mc_staging = FALSE
  /\ vm_running = TRUE /\ tick = 0 /\ bytes_xfer = 0
  /\ to_save = 0 /\ save_val = 0 /\ pslab = 0 /\ pret = 0
  /\ p2s = <<>> /\ s2p = <<>> /\ link = "up"
  /\ spc = "idle" /\ smc = NoRing /\ checkpoint_size = 0 /\ received = 0
  /\ sslab = 0
  /\ buffering_enabled = 0 /\ qplugged = FALSE /\ qqueue = <<>>
  /\ released = {}
  /\ hist = Hist0
  /\ transit_bitmap = [b \in RdmaBlocks |-> {}]
  /\ nb_sent = 0 /\ lc_nb_sent = [lc \in RdmaContexts |-> 0]
  /\ chunk_cur = [lc \in RdmaContexts |-> NoChunk]
  /\ sendq = [lc \in RdmaContexts |-> <<>>]
  /\ wpc = WIdle /\ error_state = 0
  /\ posted_recv = [p \in Peers |-> <<RDMA_WRID_READY>>]
  /\ recv_cq = [p \in Peers |-> <<>>]
  /\ control_ready_expected = [p \in Peers |-> IF p = "src" THEN 1 ELSE 0]
  /\ cpc = [p \in Peers |-> "idle"] /\ peer_error = [p \in Peers |-> 0]
  /\ creq = "NONE" /\ chist = CHist0
  /\ blockmap = Registry0.map /\ local_ram_blocks = Registry0.local
  /\ entry = Entry0 /\ work_posted = 0
  /\ migration_started = FALSE /\ keepalive = 0 /\ last_keepalive = 0
  /\ nb_missed_keepalive = 0 /\ keepalive_startup = FALSE
  /\ qp_state = "IBV_QPS_RTS" /\ connection_timer = 0
  /\ keepalive_timer = FALSE /\ hka = [run |-> 0, checks |-> 0]
  /\ remote_keys = [c \in RegChunks |-> 0]
  /\ pmr = [p \in Peers |-> {}]
  /\ unregistrations = [i \in 0..(RDMA_SEND_MAX - 1) |-> NoWrid]
  /\ unregister_current = 0 /\ unregister_next = 0
  /\ unregister_bitmap = {}
  /\ reg_wire = NoMsg /\ reg_resp = NoMsg /\ dblock = "unset"
  /\ reg_hist = RHist0 /\ reg_pc = RIdle
  /\ m_cc = NoChunk /\ m_start = 0 /\ m_saved = 0 /\ m_flushes = 0
  /\ m_pc = "saving"
  /\ shk = Shk0
  /\ nics = <<"tap">> /\ nic_ctl = NicCtl0 /\ nic_hist = NicHist0
  \* RDMA_CONTROL_VERSION_CURRENT is the same on both sides, its value being
  \* defined outside the two files.
  /\ \E o \in [Peers -> {"le", "be"}], pa \in BOOLEAN, ka \in BOOLEAN,
        known \in 0..(RDMA_CAPABILITY_PIN_ALL + RDMA_CAPABILITY_KEEPALIVE),
        current \in {1, 2} :
       capneg = [CapNeg0 EXCEPT !.order = o, !.pin_all["src"] = pa,
                                !.version_current = current,
                                !.do_keepalive["src"] = ka,
                                !.known_capabilities = known,
                                !.requested = cap_flags(pa, ka)]
  /\ sync = Sync0

NextCap == A_Connect \/ A_Accept \/ A_Established

SpecCap == InitCap /\ [][NextCap]_vars

\* ------------------------------------------------ syncing with the peer
\* The entry points that exchange control messages with the peer or take
\* the connection down, next to qemu_rdma_save_page, qemu_rdma_copy_page
\* and qemu_rdma_put_buffer, which leave RDMA WRITEs outstanding.
SyncEntries ==
  {"registration_start", "registration_stop", "registration_stop_setup",
   "get_buffer", "close"}

\* What the remote context has outstanding and buffered at this moment.
SyncEvent(kind) ==
  [kind |-> kind, nb |-> lc_nb_sent["lc_remote"],
   len |-> chunk_cur["lc_remote"].current_length]

\* The entry point is about to return ret; registration_start hands the
\* result of qemu_rdma_drain_cq back as it is, registration_stop goes
\* through err:.
SyncReturn(ret, set_error) ==
  /\ sync' = [sync EXCEPT !.pc = "returned", !.ret = ret]
  /\ error_state' = IF set_error /\ ret < 0 THEN SET_ERROR(error_state, ret)
                    ELSE error_state

\* An entry point is called.  All but qemu_rdma_close begin with
\* CHECK_ERROR_STATE().  qemu_rdma_registration_start(RAM_CONTROL_FLUSH)
\* drains the local-copy context and qemu_rdma_registration_stop the remote
\* one; qemu_rdma_get_buffer goes straight to qemu_rdma_exchange_recv, and
\* qemu_rdma_close to qemu_rdma_cleanup.
Y_Call ==
  /\ sync.pc = "idle" /\ wpc.pc = "idle" /\ ~sync.closed
  /\ \E ep \in SyncEntries :
       IF ep # "close" /\ error_state # 0
       THEN /\ sync' = [sync EXCEPT !.pc = "returned", !.entry = ep,
                                    !.ret = error_state]
            /\ UNCHANGED error_state
       ELSE IF ep = "close"
       THEN /\ sync' = [sync EXCEPT !.pc = "returned", !.entry = ep,
                                    !.closed = TRUE,
                                    !.last = SyncEvent("close"), !.ret = 0]
            /\ UNCHANGED error_state
       ELSE IF ep = "get_buffer"
       THEN \E ret \in {0, 0 - EIO} :
              /\ sync' = [sync EXCEPT !.pc = "returned", !.entry = ep,
                                      !.last = SyncEvent("get_buffer"),
                                      !.ret = ret]
              /\ error_state' = IF ret < 0 THEN SET_ERROR(error_state, ret)
                                ELSE error_state
       ELSE /\ sync' = [sync EXCEPT
                          !.pc = "flush", !.entry = ep,
                          !.lc = IF ep = "registration_start"
                                 THEN "lc_src" ELSE "lc_remote"]
            /\ UNCHANGED error_state
  /\ UNCHANGED <<transit_bitmap, nb_sent, lc_nb_sent, chunk_cur, sendq, wpc,
                 ringvars, cfgvars, mcvars, notlate>>

\* The entry point has returned to its caller.
Y_Return ==
  /\ sync.pc = "returned"
  /\ sync' = [Sync0 EXCEPT !.closed = sync.closed]
  /\ UNCHANGED <<rdmavars, ringvars, cfgvars, mcvars, notlate>>

\* qemu_rdma_drain_cq, its qemu_rdma_write: nothing buffered, or a wait for
\* the chunk in transit or for room in the send queue, or the post.
Y_Flush ==
  /\ sync.pc = "flush"
  /\ LET lc == sync.lc
         cc == chunk_cur[lc]
         chunk_idx == install_boundaries(cc)
     IN IF cc.current_length = 0
        THEN /\ sync' = [sync EXCEPT !.pc = "drain"]
             /\ UNCHANGED <<transit_bitmap, nb_sent, lc_nb_sent, chunk_cur,
                            sendq, error_state>>
        ELSE IF \/ test_bit(chunk_idx, transit_bitmap[cc.current_block_idx])
                \/ SendQueueFull(lc)
        THEN /\ sendq[lc] # <<>>
             /\ \E found \in PollOutcomes \ {"NONE"} :
                  LET r == qemu_rdma_poll(RS, lc, found)
                  IN /\ SetRS(r.st)
                     /\ IF r.ret < 0
                        THEN SyncReturn(0 - EIO,
                                        sync.entry # "registration_start")
                        ELSE UNCHANGED <<sync, error_state>>
             /\ UNCHANGED chunk_cur
        ELSE /\ SetRS([RS EXCEPT
                   !.sq[lc] = Append(@,
                       qemu_rdma_make_wrid(RDMA_WRID_RDMA_WRITE_REMOTE,
                                           cc.current_block_idx, chunk_idx)),
                   !.bm[cc.current_block_idx] = set_bit(chunk_idx, @),
                   !.nb = @ + 1,
                   !.lcnb[lc] = @ + 1])
             /\ chunk_cur' = [chunk_cur EXCEPT
                                ![lc] = [cc EXCEPT !.current_length = 0,
                                                   !.current_addr = 0]]
             /\ sync' = [sync EXCEPT !.pc = "drain"]
             /\ UNCHANGED error_state
  /\ UNCHANGED <<wpc, ringvars, cfgvars, mcvars, notlate>>

Y_Drain_nowait ==
  /\ sync.pc = "drain"
  /\ IF sync.entry = "registration_start"
     THEN SyncReturn(0, FALSE)
     ELSE /\ sync' = [sync EXCEPT
                        !.pc = IF sync.entry = "registration_stop_setup"
                               THEN "send" ELSE "finish"]
          /\ UNCHANGED error_state
  /\ UNCHANGED <<transit_bitmap, nb_sent, lc_nb_sent, sendq, chunk_cur, wpc,
                 ringvars, cfgvars, mcvars, notlate>>

\* qemu_rdma_drain_cq, while (lc->nb_sent) qemu_rdma_block_for_wrid(...).
Y_Drain ==
  /\ sync.pc = "drain"
  /\ IF lc_nb_sent[sync.lc] = 0
     THEN /\ IF sync.entry = "registration_start"
             THEN SyncReturn(0, FALSE)
             ELSE /\ sync' = [sync EXCEPT
                                !.pc = IF sync.entry = "registration_stop_setup"
                                       THEN "send" ELSE "finish"]
                  /\ UNCHANGED error_state
          /\ UNCHANGED <<transit_bitmap, nb_sent, lc_nb_sent, sendq>>
     ELSE /\ sendq[sync.lc] # <<>>
          /\ \E found \in PollOutcomes \ {"NONE"} :
               LET r == qemu_rdma_poll(RS, sync.lc, found)
               IN /\ SetRS(r.st)
                  /\ IF r.ret < 0
                     THEN SyncReturn(0 - EIO,
                                     sync.entry # "registration_start")
                     ELSE UNCHANGED <<sync, error_state>>
  /\ UNCHANGED <<chunk_cur, wpc, ringvars, cfgvars, mcvars, notlate>>

\* qemu_rdma_registration_stop(RAM_CONTROL_SETUP): RAM_BLOCKS_REQUEST goes
\* out; a failed exchange and a block table that does not match return at
\* once.
Y_Send ==
  /\ sync.pc = "send"
  /\ \E outcome \in {"ok", "exchange_failed", "mismatch"} :
       IF outcome = "ok"
       THEN /\ sync' = [sync EXCEPT !.pc = "finish",
                                    !.last = SyncEvent("RAM_BLOCKS_REQUEST")]
            /\ UNCHANGED error_state
       ELSE /\ sync' = [sync EXCEPT
                          !.pc = "returned",
                          !.last = SyncEvent("RAM_BLOCKS_REQUEST"),
                          !.ret = IF outcome = "mismatch" THEN 0 - EINVAL
                                  ELSE 0 - EIO]
            /\ UNCHANGED error_state
  /\ UNCHANGED <<transit_bitmap, nb_sent, lc_nb_sent, chunk_cur, sendq, wpc,
                 ringvars, cfgvars, mcvars, notlate>>

\* qemu_rdma_registration_stop: REGISTER_FINISHED goes out.
Y_Finish ==
  /\ sync.pc = "finish"
  /\ \E ret \in {0, 0 - EIO} :
       /\ sync' = [sync EXCEPT !.pc = "returned",
                               !.last = SyncEvent("REGISTER_FINISHED"),
                               !.ret = ret]
       /\ error_state' = IF ret < 0 THEN SET_ERROR(error_state, ret)
                         ELSE error_state
  /\ UNCHANGED <<transit_bitmap, nb_sent, lc_nb_sent, chunk_cur, sendq, wpc,
                 ringvars, cfgvars, mcvars, notlate>>

\* Pages are saved and copied, and the stream is written, between the
\* calls above and for as long as the connection is open.
Y_Page == sync.pc = "idle" /\ ~sync.closed /\ W_Page
Y_PutBuffer == sync.pc = "idle" /\ ~sync.closed /\ W_PutBuffer

InitSync == InitRdma

NextSync ==
  \/ Y_Page \/ Y_PutBuffer \/ W_WriteWait \/ W_WritePost
  \/ Y_Call \/ Y_Flush \/ Y_Drain \/ Y_Send \/ Y_Finish \/ Y_Return

SpecSync == InitSync /\ [][NextSync]_vars

\* ------------------------------------ control channel: the SEND's wait
\* qemu_rdma_post_send_control split at its qemu_rdma_block_for_wrid: the
\* queue pair's one completion queue takes the completions of SENDs and of
\* RECVs, and the wait for RDMA_WRID_SEND_CONTROL polls whatever completion
\* comes first.  The peer answers every request; nothing fails.
X_PostSendLate ==
  /\ cpc["src"] = "post_send"
  /\ SetCS(qemu_rdma_post_send_control([CS EXCEPT !.h.requests = @ + 1],
                                       "src", creq))
  /\ cpc' = [cpc EXCEPT !["src"] = "send_wait"]
  /\ UNCHANGED <<peer_error, creq, notctl>>

\* ... the wait: the SEND's completion is found and qemu_rdma_exchange_send
\* goes on, or the completion of a control RECV is found first and passed
\* over.
X_SendWait ==
  /\ cpc["src"] = "send_wait"
  /\ \/ /\ IF ResponseOf(creq) # "NONE"
           THEN /\ cpc' = [cpc EXCEPT !["src"] = "get_resp"]
                /\ UNCHANGED control_ready_expected
           ELSE /\ cpc' = [cpc EXCEPT !["src"] = "idle"]
                /\ control_ready_expected' =
                     [control_ready_expected EXCEPT !["src"] = 1]
        /\ UNCHANGED <<posted_recv, recv_cq, chist>>
     \/ /\ recv_cq["src"] # <<>>
        /\ SetCS(poll_recv(CS, "src"))
        /\ UNCHANGED cpc
  /\ UNCHANGED <<peer_error, creq, notctl>>

InitReady == InitCtl

NextReady ==
  \/ X_ExchangeSend \/ X_GetReady \/ X_PostRecv \/ X_PostSendLate
  \/ X_SendWait \/ X_GetResp \/ X_PollWrite \/ X_ExchangeRecv \/ X_GetReq
  \/ X_RepostRecv \/ X_Respond

SpecReady == InitReady /\ [][NextReady]_vars

\* ------------------------------------- registration requests by block kind
\* The pages a block of the registry spans; a block's offset counts blocks.
BlockSpan == RamChunks * RDMA_REG_CHUNK_PAGES

\* qemu_rdma_write, reg.key: current_addr for a RAM block, the chunk index
\* for any other block.
register_key(block, current_addr, chunk_idx) ==
  IF block.is_ram_block THEN current_addr ELSE chunk_idx

\* qemu_rdma_write, pin_all off and the chunk not registered yet: the
\* REGISTER_REQUEST for the chunk the buffered page of a block lies in.
B_RegisterRequest ==
  /\ reg_pc.pc = "idle" /\ entry.op # "cleanup"
  /\ \E i \in 1..Len(local_ram_blocks.block), page \in 0..(BlockSpan - 1) :
       LET block == local_ram_blocks.block[i]
           current_addr == block.offset * BlockSpan + page
           chunk_idx == ram_chunk_index(page)
       IN /\ reg_wire' = [type |-> "REGISTER_REQUEST",
                          current_block_idx |-> block.index,
                          key |-> register_key(block, current_addr, chunk_idx)]
          /\ reg_pc' = [pc |-> "reg_wait", caller |-> "put_buffer",
                        addr |-> current_addr]
  /\ UNCHANGED <<remote_keys, pmr, unregistrations, unregister_current,
                 unregister_next, unregister_bitmap, reg_resp, dblock,
                 reg_hist, rdmavars, notreg>>

\* The answer is in: the write goes out and qemu_rdma_write returns.
B_RegisterResult ==
  /\ reg_pc.pc = "reg_wait"
  /\ reg_wire' = NoMsg
  /\ reg_pc' = RIdle
  /\ UNCHANGED <<remote_keys, pmr, unregistrations, unregister_current,
                 unregister_next, unregister_bitmap, reg_resp, dblock,
                 reg_hist, rdmavars, notreg>>

\* Blocks are added and deleted between two writes.
B_AddBlock == reg_pc.pc = "idle" /\ N_AddBlock
B_DeleteBlock == reg_pc.pc = "idle" /\ N_DeleteBlock

InitBlocks == InitEntry

NextBlocks ==
  B_AddBlock \/ B_DeleteBlock \/ B_RegisterRequest \/ B_RegisterResult

SpecBlocks == InitBlocks /\ [][NextBlocks]_vars

\* ------------------------------------------------------------ properties
\* The checkpoint ACKs the primary has received when packet r left the
\* buffer cover the tick after whose resume it was emitted.
Covered(r) == r.acked >= r.k

(* C1: with buffering enabled and no traffic-shaper call failed, a packet
   the guest emitted after the resume of tick k leaves the buffer only after
   the primary has received the ACK of a checkpoint j >= k, whether the loop
   ends orderly or by error. *)
C1_ReleasedAfterAck == ~hist.q_failed => \A r \in released : Covered(r)

\* What does hold: the only packets released uncovered are those the
\* release-indefinite of mc_disable_buffering lets go after the loop has
\* ended by an error.
C1_UncoveredOnlyOnError ==
  ~hist.q_failed =>
     \A r \in released : Covered(r) \/ (r.how = "indef" /\ hist.p_failed)

(* C2: release-one for tick k is invoked only after the ACK of checkpoint k
   has been received: the primary stands before mc_flush_oldest_buffer only
   with as many ACKs received as ticks run, the last tick flushed never
   exceeds the ACKs received, and a tick whose receive failed or brought
   another word goes to err without the flush. *)
C2_FlushAfterAck ==
  /\ hist.flush_tick <= hist.p_acks
  /\ ppc = "flush" => hist.p_acks = tick
  /\ hist.p_acks <= tick

C2_Witness ==
  /\ hist.flush_tick = 2 /\ hist.p_acks = 2 /\ ppc = "sleep"
  /\ \E r \in released : r.how = "one"

(* C3: in every tick mc_start_buffer is invoked after the guest has been
   paused and before it is resumed: the guest is never resumed without a
   barrier step since that tick's pause. *)
C3_BarrierBeforeResume ==
  [][(~vm_running /\ vm_running') => hist.barrier]_vars

\* Tick 2 resumed; buffering is on, and the barrier is the last entry of
\* the buffer.
C3_Witness ==
  /\ vm_running /\ ppc = "commit" /\ tick = 2 /\ hist.barrier
  /\ buffering_enabled = 1 /\ ~hist.q_failed
  /\ qqueue # <<>> /\ qqueue[Len(qqueue)] = Barrier

(* C4: at most one checkpoint is unacknowledged at any time: no COMMIT has
   been sent before the initial ACK was received, and the COMMITs sent exceed
   the checkpoint ACKs received by at most one. *)
C4_OneUnacked ==
  /\ hist.commits > 0 => hist.p_init_ack
  /\ hist.commits <= hist.p_acks + 1
  /\ ppc \in {"commit"} => hist.commits = hist.p_acks

C4_Witness ==
  hist.p_init_ack /\ hist.commits = 2 /\ hist.p_acks = 1 /\ ppc = "ack"

(* C5: the secondary sends the ACK of a checkpoint only after it has received
   exactly size bytes of it into the slab ring, and it loads a checkpoint
   only after it has sent that checkpoint's ACK. *)
C5_AckAfterSize ==
  /\ spc \in {"ack", "load"} =>
        /\ received = checkpoint_size
        /\ hist.s_got = checkpoint_size
        /\ smc.slab_total = checkpoint_size
  /\ hist.s_loads <= hist.s_acks
  /\ spc = "load" => hist.s_acks = hist.s_loads + 1
  /\ spc \in {"commit", "size", "data", "ack"} => hist.s_acks = hist.s_loads

\* A checkpoint larger than a slab, acknowledged and about to be loaded.
C5_Witness ==
  /\ spc = "load" /\ checkpoint_size = MC_SLAB_BUFFER_SIZE + 1
  /\ hist.s_got = checkpoint_size /\ hist.s_acks = 2 /\ hist.s_loads = 1

(* C6: once the primary has streamed a checkpoint and waits for its ACK, the
   size prefix it sent equals the number of bytes it streamed from the slab
   ring, for every staged size. *)
C6_PrefixIsStreamed ==
  ppc = "ack" => hist.sent_size = hist.sent_bytes

(* C7: the control words on the replication stream are COMMIT = 0 and
   ACK = 2 (with NACK = -1 and CANCEL = 1): the word mc_send writes for
   COMMIT is 0, and the word written and expected for ACK is 2. *)
C7_WordValues ==
  /\ MC_TRANSACTION_NACK = 0 - 1
  /\ MC_TRANSACTION_COMMIT = 0
  /\ MC_TRANSACTION_CANCEL = 1
  /\ MC_TRANSACTION_ACK = 2
  /\ hist.p_cmd \in {<<>>, <<0>>}
  /\ hist.s_cmd \in {<<>>, <<2>>}
  /\ hist.p_got \in {<<>>, <<2>>}
  /\ \A i \in 1..Len(s2p) : s2p[i] = Word(2)
  /\ \A i \in 1..Len(p2s) : p2s[i].t = "word" => p2s[i].v \in {0} \cup StagedSizes

C7_Witness ==
  hist.p_cmd = <<0>> /\ hist.s_cmd = <<2>> /\ hist.p_got = <<2>> /\ tick = 2

\* C7 as stated: COMMIT goes out as 1, ACK as 3.
C7_AsStated ==
  /\ hist.p_cmd \in {<<>>, <<1>>}
  /\ hist.s_cmd \in {<<>>, <<3>>}
  /\ hist.p_got \in {<<>>, <<3>>}

(* C8: when the primary loop has ended because an operation failed, the
   migration state mc_thread leaves behind is not COMPLETED. *)
C8_FailureNeverCompleted ==
  (ppc = "done" /\ hist.p_failed) => mstate # "COMPLETED"

\* The RDMA WRITEs of chunk c of block b, and of block b, that are posted
\* and whose completion has not been polled, over both contexts.
InFlight(b, c) ==
  Cardinality({e \in {<<lc, i>> : lc \in RdmaContexts, i \in 1..SendDepth} :
                 /\ e[2] <= Len(sendq[e[1]])
                 /\ sendq[e[1]][e[2]].type = RDMA_WRID_RDMA_WRITE_REMOTE
                 /\ sendq[e[1]][e[2]].block = b
                 /\ sendq[e[1]][e[2]].chunk = c})

BlockWrites(b) ==
  Cardinality({e \in {<<lc, i>> : lc \in RdmaContexts, i \in 1..SendDepth} :
                 /\ e[2] <= Len(sendq[e[1]])
                 /\ sendq[e[1]][e[2]].block = b})

(* C9: for every chunk of every RAM block the transit bit is set exactly
   while one RDMA WRITE on that chunk is posted and not yet completed: no
   chunk has two WRITEs in flight, and the number of bits set in a block's
   transit bitmap is the number of the block's posted, uncompleted WRITEs,
   the remote and the local-copy context together. *)
C9_TransitExact ==
  \A b \in RdmaBlocks :
     /\ \A c \in 0..(BlockChunks[b + 1] - 1) :
           /\ InFlight(b, c) <= 1
           /\ c \in transit_bitmap[b] <=> InFlight(b, c) = 1
     /\ Cardinality(transit_bitmap[b]) = BlockWrites(b)

\* What does hold: a chunk never has two WRITEs in flight and its bit is set
\* while it has one; and until a completion with an error status has been
\* polled (error_state is then set) the bits and the counters are exact.
C9_ExactUntilError ==
  /\ \A b \in RdmaBlocks : \A c \in 0..(BlockChunks[b + 1] - 1) :
        /\ InFlight(b, c) <= 1
        /\ InFlight(b, c) = 1 => c \in transit_bitmap[b]
        /\ error_state = 0 => (c \in transit_bitmap[b] <=> InFlight(b, c) = 1)
  /\ \A b \in RdmaBlocks : transit_bitmap[b] \subseteq 0..(BlockChunks[b + 1] - 1)
  /\ error_state = 0 =>
        /\ \A b \in RdmaBlocks : Cardinality(transit_bitmap[b]) = BlockWrites(b)
        /\ nb_sent = BlockWrites(0) + BlockWrites(1)
        /\ \A lc \in RdmaContexts : lc_nb_sent[lc] = Len(sendq[lc])

(* C10: every byte sequence put on a freshly reset ring is stored whole
   (put never short-writes: the ring then holds Len(B) bytes), and reading
   from the start of the ring returns, for every request that does not go
   past the L bytes written, exactly the requested bytes of B in order. *)
C10_RoundTrip ==
  /\ rphase = "put" => mc.slab_total = Len(rput) /\ (rput # <<>> => rret > 0)
  /\ (rphase = "get" /\ rreq <= Len(rput)) =>
        /\ rgot = SubSeq(rput, 1, rreq)
        /\ (rreq > 0 => rret > 0)

C10_Witness ==
  /\ rphase = "get"
  /\ Len(rput) = 2 * MC_SLAB_BUFFER_SIZE
  /\ rreq = Len(rput)
  /\ rgot = rput
  /\ mc.nb_slabs >= 2
\* The sum of size over slabs 1..n of a ring.
RECURSIVE SumSizes(_, _)
SumSizes(m, n) == IF n = 0 THEN 0 ELSE m.slabs[n].size + SumSizes(m, n - 1)

(* C11: in every reachable state of a slab ring, slab_total equals the sum of
   size over all slabs of the ring. *)
C11_TotalIsSumOfSizes == mc.slab_total = SumSizes(mc, Len(mc.slabs))

(* C11, amended: while a checkpoint is being put on a reset ring, slab_total
   equals the sum of size over the slabs from head to curr_slab, which are
   the slabs written since the reset (slabs behind curr_slab keep the sizes
   of earlier checkpoints); a get of n bytes that are there lowers
   slab_total by n and leaves every size as it is. *)
C11_TotalIsWritten ==
  /\ rphase = "put" =>
        /\ mc.slab_total = SumSizes(mc, mc.curr_slab)
        /\ mc.slab_total = Len(rput)
  /\ (rphase = "get" /\ rreq <= Len(rput)) =>
        /\ mc.slab_total = Len(rput) - rreq
        /\ \E n \in 1..Len(mc.slabs) : SumSizes(mc, n) = Len(rput)

\* A checkpoint put on a ring whose second slab still has the size of the
\* checkpoint before.
C11_Witness ==
  /\ rphase = "put" /\ rput # <<>>
  /\ mc.curr_slab = 1 /\ mc.nb_slabs >= 2 /\ mc.slabs[2].size > 0
  /\ mc.slab_total = mc.slabs[1].size

(* C12: after a tick of the MC loop that ends without error, head exists and
   head.size = 0, head.read = 0 and slab_total = 0. *)
C12_TickEndsEmpty ==
  (ppc = "tick" /\ tick >= 1 /\ ~hist.p_failed) =>
     /\ pmc.slabs # <<>>
     /\ pmc.slabs[1].size = 0 /\ pmc.slabs[1].read = 0
     /\ pmc.slab_total = 0

(* C12, amended: after a tick that ends without error head exists with
   head.size = 0 and head.read = 0, and slab_total still holds the number of
   bytes of the checkpoint just sent; slab_total is 0 once mc_slab_start has
   run at the start of the next tick. *)
C12_TickEndsSent ==
  /\ (ppc \in {"sleep", "tick"} /\ tick >= 1 /\ ~hist.p_failed) =>
        /\ pmc.slabs # <<>>
        /\ pmc.slabs[1].size = 0 /\ pmc.slabs[1].read = 0
        /\ pmc.slab_total = bytes_xfer /\ bytes_xfer \in StagedSizes
  /\ ppc \in {"barrier", "save"} =>
        /\ pmc.slabs # <<>>
        /\ pmc.slabs[1].size = 0 /\ pmc.slabs[1].read = 0
        /\ pmc.slab_total = 0

C12_Witness ==
  /\ ppc = "tick" /\ tick = 2 /\ ~hist.p_failed
  /\ pmc.nb_slabs = 2 /\ pmc.slab_total = MC_SLAB_BUFFER_SIZE + 1

\* A ring of n slabs with the given strikes and slab_total.
RingOf(n, strikes, total) ==
  [slabs |-> [i \in 1..n |-> NewSlab], curr_slab |-> n, tail |-> n,
   slab_total |-> total, nb_slabs |-> n, strikes |-> strikes]

(* C13: nb_slabs >= 1 in every reachable state of an open ring; a shrink in
   mc_slab_start never frees head, for every nb_slabs >= 2 and every value
   of max_strikes; after a shrink nb_slabs is the number of slabs linked
   from head and tail is the last of them. *)
C13_HeadSurvives ==
  /\ mc.nb_slabs >= 1
  /\ mc.nb_slabs = Len(mc.slabs) /\ mc.tail = Len(mc.slabs)
  /\ mc.curr_slab \in 0..Len(mc.slabs)
  /\ \A n \in 2..MaxSlabs, maxs \in (0 - 1)..2, k \in 0..2 :
        LET m == mc_slab_start(RingOf(n, k, 0), maxs)
        IN /\ m.nb_slabs >= 1 /\ m.nb_slabs = Len(m.slabs)
           /\ m.tail = m.nb_slabs /\ m.curr_slab = 1
           /\ k >= maxs => m.nb_slabs = n - Max(1, (n - 1) \div 2)

\* A reset that freed the last of three slabs.
C13_Witness ==
  /\ rshrunk = 1 /\ mc.nb_slabs = 2 /\ mc.tail = 2 /\ Len(mc.slabs) = 2
  /\ rphase = "put" /\ rput = <<>>

(* C14: whenever a peer posts a control SEND (request, READY, response or
   the ERROR of cleanup) the other peer has a RECV posted for it, and the
   source has polled a READY for every request it has posted. *)
C14_RecvPosted ==
  /\ chist.unposted = {}
  /\ chist.requests <= chist.readys_polled

\* What holds: only the ERROR of cleanup finds no RECV posted, and until
\* an error is recorded every request follows its READY.
C14_OnlyErrorUnposted ==
  /\ chist.unposted \subseteq {"ERROR"}
  /\ (\A p \in Peers : peer_error[p] = 0) =>
        /\ chist.unposted = {}
        /\ chist.requests <= chist.readys_polled

(* C15: once error_state is non-zero, every call of a public entry point
   returns the stored error and leaves the posted work, the control channel
   and the block registry as they were, until cleanup runs. *)
C15_ShortCircuit ==
  [][(error_state # 0 /\ entry'.n # entry.n) =>
        /\ entry'.ret = error_state
        /\ UNCHANGED <<work_posted, blockmap, error_state>>]_vars

\* What holds: the entry points that begin with CHECK_ERROR_STATE() do so.
C15_CheckedShortCircuit ==
  [][(error_state # 0 /\ entry'.n # entry.n
        /\ entry'.op \in CheckedEntryPoints) =>
        /\ entry'.ret = error_state
        /\ UNCHANGED <<work_posted, blockmap, error_state>>]_vars

(* C16: once keepalive_startup is set, a check of the watcher moves the
   queue pair to ERROR, records -ENETUNREACH (with SET_ERROR) and stops
   re-arming itself exactly when the run of consecutive checks that saw no
   change of the keepalive slot exceeds 10; a check that sees a change
   resets the miss count to 0; a check that ends a run of at most 10 misses
   changes neither the queue pair nor the error and re-arms the watcher. *)
C16_WatcherThreshold ==
  [][(hka'.checks # hka.checks /\ keepalive_startup) =>
        /\ hka'.run > 10 <=>
              /\ qp_state' = "IBV_QPS_ERR"
              /\ error_state' = SET_ERROR(error_state, 0 - ENETUNREACH)
              /\ error_state' # 0
              /\ connection_timer' = 0
        /\ hka'.run <= 10 =>
              /\ qp_state' = qp_state /\ error_state' = error_state
              /\ connection_timer' # 0
        /\ keepalive # last_keepalive =>
              hka'.run = 0 /\ nb_missed_keepalive' = 0
        /\ nb_missed_keepalive' = hka'.run]_vars

C16_Witness ==
  /\ keepalive_startup /\ hka.run = 11 /\ qp_state = "IBV_QPS_ERR"
  /\ error_state = 0 - ENETUNREACH /\ connection_timer = 0

(* C17: with pin_all off, a flush (one qemu_rdma_write that does not fail)
   of all-zero bytes of a RAM-block chunk whose remote_keys entry is 0
   sends exactly one COMPRESS message for that chunk, posts no RDMA WRITE,
   sends no REGISTER_REQUEST, and leaves remote_keys[chunk] at 0 and the
   chunk's transit bit clear. *)
C17_ZeroChunkCompressed ==
  [][(/\ reg_hist'.flushes # reg_hist.flushes
      /\ reg_hist'.last.zero
      /\ reg_hist'.last.ret >= 0
      /\ remote_keys[reg_hist'.last.chunk] = 0)
     => /\ reg_hist'.compress = reg_hist.compress + 1
        /\ reg_wire = NoMsg
        /\ reg_wire' = [type |-> "COMPRESS", chunk |-> reg_hist'.last.chunk]
        /\ reg_hist'.writes = reg_hist.writes
        /\ sendq' = sendq /\ nb_sent' = nb_sent
        /\ reg_hist'.regs = reg_hist.regs
        /\ remote_keys' = remote_keys
        /\ pmr' = pmr
        /\ ~test_bit(reg_hist'.last.chunk, transit_bitmap'[0])]_vars

C17_Witness ==
  /\ reg_hist.last.zero /\ reg_hist.last.ret = 1
  /\ reg_hist.compress = 1 /\ reg_hist.writes = 0
  /\ reg_wire = [type |-> "COMPRESS", chunk |-> reg_hist.last.chunk]
  /\ remote_keys[reg_hist.last.chunk] = 0
  /\ sendq["lc_remote"] = <<>>

(* C18: with pin_all off, a REGISTER_REQUEST goes out for a chunk only
   while its remote_keys entry is 0 and the chunk has been unregistered as
   often as it has been registered; so a chunk whose entry a
   REGISTER_RESULT has filled is not registered again until it has been
   unregistered, and without unregistrations there is one REGISTER_REQUEST
   per chunk touched. *)
C18_RegisteredOnce ==
  [][\A c \in RegChunks :
       reg_hist'.regs[c] # reg_hist.regs[c]
       => /\ remote_keys[c] = 0
          /\ reg_hist.regs[c] = reg_hist.unregs[c]
          /\ reg_hist'.regs[c] = reg_hist.regs[c] + 1
          /\ reg_wire' = [type |-> "REGISTER_REQUEST", chunk |-> c]]_vars

C18_Witness ==
  /\ reg_hist.writes = 2 /\ reg_hist.flushes = 2
  /\ reg_hist.regs[0] = 1 /\ reg_hist.regs[1] = 0
  /\ reg_hist.unregs[0] = 0
  /\ remote_keys[0] # 0

(* C19: 1025 contiguous 4 KiB pages of one RAM block saved through
   qemu_rdma_save_page, followed by the final drain, are written out in one
   flush for every 1 MiB chunk the pages lie in, which makes five flushes:
   a merge ends at the end of the chunk, before the cap of 2 MiB. *)
C19_FlushPerChunk ==
  m_pc = "done" =>
    /\ m_flushes = ChunksTouched
    /\ SavePages = 1025 => m_flushes = 5

C19_Witness ==
  m_pc = "done" /\ m_saved = SavePages /\ m_start = 0 /\ m_flushes = 5

(* C19 as stated: the run ends with exactly two flushes. *)
C19_TwoFlushes ==
  m_pc = "done" => m_flushes = 2


(* C20: with pin_all off, in every reachable state the source's
   remote_keys[chunk] is 0 exactly when the destination holds no memory
   region for the chunk. *)
C20_KeysMatchPins ==
  \A c \in RegChunks : remote_keys[c] = 0 <=> c \notin pmr["dst"]

(* C21: after every sequence of add and delete operations on the block
   registry, the block map and the block array hold the same offsets, every
   map entry points to the element of the current array that has its
   offset, and the elements of the array carry the indices 0..n-1 in array
   order. *)
C21_RegistryAgrees ==
  LET block == local_ram_blocks.block
  IN /\ DOMAIN blockmap = {block[x].offset : x \in DOMAIN block}
     /\ \A k \in DOMAIN blockmap :
          /\ blockmap[k].gen = local_ram_blocks.gen
          /\ blockmap[k].pos + 1 \in DOMAIN block
          /\ block[blockmap[k].pos + 1].offset = k
     /\ \A x \in DOMAIN block : block[x].index = x - 1

C21_Witness ==
  /\ entry.op = "remove"
  /\ Len(local_ram_blocks.block) = 2
  /\ local_ram_blocks.block[1].offset # 0
  /\ local_ram_blocks.block[2].index = 1
  /\ DOMAIN blockmap = {1, 2}

(* C22: with freq_ms = 100 and max_strikes_delay_secs = 10 (max_strikes =
   100), through 100 consecutive checkpoints that each find the previous
   slab_total at most (nb_slabs - 1) slabs' worth, nb_slabs stays as it is
   and strikes counts them; the mc_slab_start of the checkpoint after them
   frees max(1, (nb_slabs - 1) / 2) slabs from the tail and resets strikes,
   for every starting nb_slabs >= 2. *)
C22_ShrinkAfterStrikes ==
  /\ max_strikes = 100
  /\ (shk.streak >= 1 /\ ~shk.shrunk)
       => /\ shk.streak <= 100
          /\ mc.nb_slabs = shk.nb0
          /\ mc.strikes = shk.streak
  /\ shk.shrunk
       => /\ shk.streak = 101
          /\ mc.nb_slabs = shk.nb0 - Max(1, (shk.nb0 - 1) \div 2)
          /\ mc.nb_slabs = Len(mc.slabs)
          /\ mc.strikes = 0

C22_Witness ==
  shk.shrunk /\ shk.nb0 = 4 /\ mc.nb_slabs = 3 /\ shk.streak = 101

(* C22 as stated: once the 100 consecutive under-used checkpoints have led
   to the shrink, nb_slabs is half of what it was. *)
C22_Halved ==
  shk.shrunk => mc.nb_slabs = shk.nb0 \div 2

(* C23: mc_enable_buffering followed by mc_disable_buffering leaves every
   piece of the controller's state (the enabled flag, the netlink handles,
   the NIC selection state) as it was before the enable. *)
C23_DisableRestores ==
  LET n == nic_hist.n
  IN (n >= 2 /\ nic_hist.ops[n] = "disable" /\ nic_hist.ops[n - 1] = "enable")
       => /\ buffering_enabled = nic_hist.pre.en
          /\ nic_ctl = nic_hist.pre.ctl

(* C24: once an insert-barrier (mc_start_buffer) or a release-one
   (mc_flush_oldest_buffer) has failed while the MC loop runs, buffering is
   off: the enabled flag is 0. *)
C24_FailureDowngrades ==
  hist.q_failed => buffering_enabled = 0

(* C25: when the secondary has received COMMIT and then a size of zero, it
   stops processing checkpoints (rollback): it sends no ACK and does not
   load state for that checkpoint, nor ever after. *)
C25_ZeroSizeStops ==
  [][/\ (spc = "size" /\ spc' # spc /\ checkpoint_size' = 0)
          => /\ spc' = "rollback"
             /\ s2p' = s2p
             /\ hist'.s_acks = hist.s_acks
             /\ hist'.s_loads = hist.s_loads
     /\ spc = "rollback"
          => /\ spc' = "rollback"
             /\ Len(s2p') <= Len(s2p)
             /\ hist'.s_acks = hist.s_acks
             /\ hist'.s_loads = hist.s_loads
             /\ smc' = smc]_vars

C25_Witness ==
  /\ spc = "rollback" /\ link = "up"
  /\ checkpoint_size = 0
  /\ hist.commits = 1 /\ hist.sent_size = 0
  /\ hist.s_loads = 0

(* C26: on every exit path of mc_thread, error or orderly, failures before
   the first tick included, the thread has disabled traffic buffering
   (mc_disable_buffering has run: the enabled flag is 0) and scheduled the
   cleanup bottom half exactly once when it returns, and it has not
   scheduled it before. *)
C26_ExitCleansUp ==
  /\ ppc = "done" => /\ buffering_enabled = 0
                     /\ hist.cleanup_bh = 1
                     /\ ~mc_staging
  /\ ppc # "done" => hist.cleanup_bh = 0

C26_Witness ==
  /\ ppc = "done" /\ hist.p_failed /\ ~hist.p_init_ack /\ tick = 0
  /\ hist.commits = 0
  /\ hist.out_en = 1 /\ buffering_enabled = 0
  /\ hist.cleanup_bh = 1 /\ mstate = "ERROR"

(* C27: after connection setup the two sides agree on every capability:
   pin_all, and likewise do_keepalive, is on at both sides exactly when the
   source asked for it and it is among the destination's
   known_capabilities; the flags in the reply are the flags asked for
   intersected with the known ones. *)
C27_CapabilitiesAgree ==
  capneg.pc = "connected" =>
    /\ capneg.reply = BitAnd(capneg.requested, capneg.known_capabilities)
    /\ \A p \in Peers :
         /\ capneg.pin_all[p] <=>
              /\ HasBit(capneg.requested, RDMA_CAPABILITY_PIN_ALL)
              /\ HasBit(capneg.known_capabilities, RDMA_CAPABILITY_PIN_ALL)
         /\ capneg.do_keepalive[p] <=>
              /\ HasBit(capneg.requested, RDMA_CAPABILITY_KEEPALIVE)
              /\ HasBit(capneg.known_capabilities, RDMA_CAPABILITY_KEEPALIVE)

C27_Witness ==
  /\ capneg.pc = "connected"
  /\ capneg.order["src"] # capneg.order["dst"]
  /\ capneg.requested = RDMA_CAPABILITY_PIN_ALL + RDMA_CAPABILITY_KEEPALIVE
  /\ capneg.known_capabilities = RDMA_CAPABILITY_KEEPALIVE
  /\ capneg.reply = RDMA_CAPABILITY_KEEPALIVE
  /\ ~capneg.pin_all["src"] /\ ~capneg.pin_all["dst"]
  /\ capneg.do_keepalive["src"] /\ capneg.do_keepalive["dst"]

(* C28: a flush that takes the COMPRESS path is not an error: when the
   flush of the buffered range inside qemu_rdma_save_page sends COMPRESS,
   the call goes on to start the range of the new page and error_state
   stays 0. *)
C28_CompressNotError ==
  [][(/\ reg_pc.pc = "write" /\ reg_pc.caller = "save_page"
      /\ reg_wire = NoMsg /\ reg_wire'.type = "COMPRESS")
     => /\ error_state' = 0
        /\ chunk_cur'["lc_remote"] = reg_write_start(reg_pc.addr)]_vars

(* C29: every flush (qemu_rdma_write) that deals with the buffered range
   without a negative error, by posting a WRITE or by sending COMPRESS,
   leaves the cursor's pending length at 0; inside qemu_rdma_save_page the
   cursor may by then hold the new page's range instead. *)
C29_FlushEmptiesCursor ==
  [][(\/ /\ reg_pc.pc = "write" /\ reg_pc'.pc = "idle"
         /\ reg_hist'.flushes = reg_hist.flushes + 1
         /\ reg_hist'.last.ret >= 0
      \/ /\ reg_pc.pc = "reg_wait" /\ reg_pc'.pc = "idle"
         /\ error_state' = error_state)
     => \/ chunk_cur'["lc_remote"].current_length = 0
        \/ /\ reg_pc.caller = "save_page"
           /\ chunk_cur'["lc_remote"] = reg_write_start(reg_pc.addr)]_vars

(* C30: qemu_rdma_unregister_waiting leaves a chunk whose transit bit is
   set alone (its memory region, its remote_keys entry, no
   UNREGISTER_REQUEST); a chunk it does unregister holds a memory region at
   that moment, loses it, and gets exactly one UNREGISTER_REQUEST. *)
C30_UnregisterGuarded ==
  [][\A c \in RegChunks :
       (/\ reg_pc.pc = "idle"
        /\ unregistrations[unregister_current] # NoWrid
        /\ unregistrations[unregister_current].chunk = c
        /\ unregistrations'[unregister_current] = NoWrid)
       => IF test_bit(c, transit_bitmap[0])
          THEN /\ pmr' = pmr /\ remote_keys' = remote_keys
               /\ reg_wire' = reg_wire
               /\ reg_hist'.unregs = reg_hist.unregs
          ELSE /\ c \in pmr["src"] /\ c \notin pmr'["src"]
               /\ remote_keys'[c] = 0
               /\ reg_wire' = [type |-> "UNREGISTER_REQUEST", chunk |-> c]
               /\ reg_hist'.unregs = [reg_hist.unregs EXCEPT ![c] = @ + 1]]_vars

(* C31: qemu_rdma_registration_stop sends RAM_BLOCKS_REQUEST and
   REGISTER_FINISHED only after qemu_rdma_drain_cq has written the buffered
   range out and waited until the remote context has no RDMA WRITE
   outstanding. *)
C31_StopDrains ==
  sync.last.kind \in {"RAM_BLOCKS_REQUEST", "REGISTER_FINISHED"}
    => sync.last.nb = 0 /\ sync.last.len = 0

C31_Witness ==
  /\ sync.last = [kind |-> "REGISTER_FINISHED", nb |-> 0, len |-> 0]
  /\ sync.entry = "registration_stop" /\ sync.pc = "returned"
  /\ sync.ret = 0
  /\ lc_nb_sent["lc_src"] > 0

(* C31 as stated: qemu_rdma_get_buffer and the teardown, too, find no
   RDMA WRITE outstanding and nothing buffered. *)
C31_EverySyncDrains ==
  sync.last.kind # "NONE" => sync.last.nb = 0 /\ sync.last.len = 0

(* C32: no READY and no response is lost to a poll: the source never waits
   in qemu_rdma_exchange_send for a READY or a response while the
   destination, having sent it, waits for the next request and no
   completion is left on either queue. *)
C32_ReadyNotLost ==
  ~(/\ cpc["src"] \in {"get_ready", "get_resp"}
    /\ recv_cq["src"] = <<>>
    /\ cpc["dst"] = "get_req" /\ recv_cq["dst"] = <<>>
    /\ peer_error["src"] = 0 /\ peer_error["dst"] = 0)

(* C33: every chunk that qemu_rdma_signal_unregister has accepted is taken
   off the queue, and its unregister bit cleared, by the next complete run
   of qemu_rdma_unregister_waiting: whenever that loop finds nothing at its
   position, no unregister bit is set and the drain position has caught up
   with the enqueue position. *)
C33_DrainCatchesUp ==
  (reg_pc.pc = "idle" /\ unregistrations[unregister_current] = NoWrid)
    => unregister_bitmap = {} /\ unregister_current = unregister_next

(* C34: no chunk has two entries in the unregister queue at a time, and a
   chunk with an entry has its unregister bit set; a chunk is enqueued, at
   the enqueue position, only when its bit was clear, and while the slot at
   the enqueue position is taken (the ring is full) nothing is enqueued and
   no bit is set. *)
C34_NoDuplicateEntries ==
  [][LET slots == 0..(RDMA_SEND_MAX - 1)
         queued(q, i) == q[i] # NoWrid
     IN /\ \A i \in slots, j \in slots :
             (queued(unregistrations', i) /\ queued(unregistrations', j)
              /\ unregistrations'[i].chunk = unregistrations'[j].chunk)
             => i = j
        /\ \A i \in slots :
             queued(unregistrations', i)
             => test_bit(unregistrations'[i].chunk, unregister_bitmap')
        /\ queued(unregistrations, unregister_next)
             => /\ unregister_next' = unregister_next
                /\ unregister_bitmap' \subseteq unregister_bitmap
        /\ \A c \in unregister_bitmap' \ unregister_bitmap :
             /\ unregister_bitmap' = unregister_bitmap \cup {c}
             /\ unregistrations' =
                  [unregistrations EXCEPT
                     ![unregister_next] = qemu_rdma_make_wrid(0, 0, c)]
             /\ unregister_next' = (unregister_next + 1) % RDMA_SEND_MAX]_vars

C34_Witness ==
  /\ unregistrations[unregister_next] # NoWrid
  /\ unregistrations[unregister_next].chunk = 1
  /\ unregister_bitmap = {0, 1}
  /\ unregister_current = unregister_next

(* C35: when the checkpoint before filled all slabs (slab_total above
   (nb_slabs - 1) slabs' worth), strikes is zero after mc_slab_start. *)
C35_FullTickResetsStrikes ==
  [][mc.slab_total > (mc.nb_slabs - 1) * MC_SLAB_BUFFER_SIZE
     => mc'.strikes = 0]_vars

C35_Witness ==
  /\ shk.streak = 0 /\ shk.nb0 = 3 /\ mc.nb_slabs = 3 /\ mc.strikes = 0
  /\ mc.slab_total = 2 * MC_SLAB_BUFFER_SIZE

(* C36: mc_slab_start frees slabs only when the checkpoint before left at
   least one slab unused (slab_total at most (nb_slabs - 1) slabs'
   worth). *)
C36_FreesOnlyWhenUnderUsed ==
  [][mc'.nb_slabs < mc.nb_slabs
     => mc.slab_total <= (mc.nb_slabs - 1) * MC_SLAB_BUFFER_SIZE]_vars

(* C37: capture_checkpoint never returns with the guest paused: on the
   return after a completed save and on the return after a file error
   during the save, the guest is running again. *)
C37_ReturnsWithGuestRunning ==
  [][(ppc \in {"barrier", "save", "saving", "resume"}
      /\ ppc' \notin {"barrier", "save", "saving", "resume"})
     => vm_running']_vars

(* C38: whenever a transport entry point has returned a negative value,
   error_state is non-zero. *)
C38_NegativeReturnSetsError ==
  (sync.pc = "returned" /\ sync.ret < 0) => error_state # 0

(* C39: a flush that waits for a chunk's transit bit to clear can always
   end: a WRITE completion is still to come on the completion queue of the
   context it blocks on, also when the bit was set by a WRITE of the other
   context. *)
C39_TransitWaitEnds ==
  (/\ wpc.pc = "write"
   /\ test_bit(install_boundaries(chunk_cur[wpc.lc]),
               transit_bitmap[chunk_cur[wpc.lc].current_block_idx]))
  => sendq[wpc.lc] # <<>>

\* The key of the REGISTER_REQUEST on its way: the address of the buffered
\* write for a RAM block, its chunk index within the block for another.
RegisterKeyed ==
  (reg_pc.pc = "reg_wait" /\ reg_wire.type = "REGISTER_REQUEST") =>
    LET block == local_ram_blocks.block[reg_wire.current_block_idx + 1]
    IN reg_wire.key =
         IF block.is_ram_block THEN reg_pc.addr
         ELSE ram_chunk_index(reg_pc.addr - block.offset * BlockSpan)

(* C40: every block registered by qemu_rdma_init_ram_blocks has
   is_ram_block true, every block registered after it has is_ram_block
   false, and a block keeps its flag; REGISTER_REQUEST is keyed by address
   for is_ram_block blocks and by chunk index for the others. *)
C40_InitBlocksAreRamBlocks ==
  /\ [](entry.n = 0 =>
          \A i \in 1..Len(local_ram_blocks.block) :
             local_ram_blocks.block[i].is_ram_block)
  /\ [][\A i \in 1..Len(local_ram_blocks'.block) :
          LET b == local_ram_blocks'.block[i]
          IN IF b.offset \in DOMAIN blockmap
             THEN b.is_ram_block =
                    local_ram_blocks.block[blockmap[b.offset].pos + 1]
                      .is_ram_block
             ELSE ~b.is_ram_block]_vars
  /\ []RegisterKeyed

C40_Witness ==
  /\ Len(local_ram_blocks.block) = 3
  /\ local_ram_blocks.block[1].is_ram_block
  /\ local_ram_blocks.block[2].is_ram_block
  /\ ~local_ram_blocks.block[3].is_ram_block
  /\ reg_pc.pc = "reg_wait"
  /\ reg_wire.type = "REGISTER_REQUEST"
  /\ reg_wire.current_block_idx = 2
  /\ reg_wire.key = 1
  /\ reg_pc.addr = local_ram_blocks.block[3].offset * BlockSpan
                     + RDMA_REG_CHUNK_PAGES

(* C40 as stated: only the first block registered has is_ram_block true,
   every block from the second onward has it false; the keying as above. *)
C40_OnlyFirstIsRamBlock ==
  /\ entry.n = 0 =>
       \A i \in 1..Len(local_ram_blocks.block) :
          local_ram_blocks.block[i].is_ram_block <=> (i = 1)
  /\ RegisterKeyed

====
